---- MODULE Spec2Model ----
(***************************************************************************)
(* A model of haulvisor: the priority job scheduler of                     *)
(* haulvisor/scheduler/job_queue.py (one worker thread, a heap-backed      *)
(* PriorityQueue, retries with backoff, the result map polled by wait)     *)
(* and the gate-list passes of haulvisor/compiler/optimizer.py.            *)
(***************************************************************************)
EXTENDS Integers, Sequences, FiniteSets, TLC

\* ------------------------------------------------------------------ bounds
MaxJobs == 3        \* enqueue calls in one run
MaxRetries == 1     \* largest max_retries handed to enqueue
MaxClock == 1       \* readings of time.time() are 0..MaxClock
MaxFaults == 2      \* exceptions raised in one run by device and collaborator calls
NumWaiters == 2     \* callers of wait
MaxGates == 4       \* longest gate list handed to the optimizer passes

MaxFifoJobs == 4    \* enqueue calls in one run of the equal-priority scenario
MaxWaitJobs == 2    \* enqueue calls in one run with callers of wait
MaxLiveJobs == 2    \* jobs in flight at once under an endless stream of submissions
MaxQubits == 3      \* largest ir.qubits of an IR handed to optimize
MaxIrGates == 3     \* longest gate list of an IR handed to optimize
MaxBarrierGates == 4 \* longest gate list with barriers handed to _count_depth
MaxBackoffJobs == 2  \* enqueue calls in one run of the backoff scenario
MaxBackoffRetries == 3 \* largest max_retries in the backoff scenario
MaxLoopGates == 5    \* longest gate list handed to the loop of _commute_rotations
MaxDispatchJobs == 2 \* calls of dispatch that reach enqueue in one run

IdLimit == IF MaxJobs > MaxFifoJobs THEN MaxJobs ELSE MaxFifoJobs
JobIds == 1..IdLimit
Waiters == 1..NumWaiters

\* ------------------------------------------------------- scheduler state
VARIABLES
  pq,              \* _pq.queue: the heap list inside the PriorityQueue
  results,         \* _results: job_id -> outcome (NoResult: key absent)
  pc,              \* position of the HaulVisorWorker thread in _worker
  item,            \* the _PQItem the worker holds (NoItem: none)
  job_run_result,  \* the worker's local job_run_result
  exc,             \* the exception the worker's handler holds
  raised,          \* the call that raised it ("none": no exception in hand)
  backoff_duration,\* the worker's local backoff_duration while it sleeps
  clock,           \* the value time.time() returns when read now
  issued,          \* number of job ids handed out by enqueue (uuid4, all distinct)
  wpc,             \* position of each caller of wait
  wjob,            \* the job_id each caller of wait was given
  wgot,            \* what each call of wait returned
  \* history, recorded for the properties only
  runs,            \* per job: executions started by the worker
  devFails,        \* per job: executions in which a device step raised
  orig,            \* per live job: the record as enqueue built it
  started,         \* job ids in the order of their first execution start
  firstGetAt,      \* number of ids issued when the worker's first get returned
  faults,          \* exceptions raised so far by device and collaborator calls
  stored,          \* per job: the outcome the worker wrote into _results
  \* optimizer
  gates,           \* the gate list handed to a pass
  out,             \* the gate list the pass returned
  opc,             \* which pass produced out
  qubits,          \* ir.qubits of the IR handed to optimize, num_qubits of _count_depth
  oerr,            \* the exception that left the pass ("none": it returned)
  oqubits,         \* the wire count returned by _qubit_remap, ir.qubits after optimize
  odepth,          \* the depth returned by _count_depth, ir.depth after optimize
  \* persistence and dispatch
  row,             \* per job: the status column of its row in the jobs table
  updates,         \* per job: the status of the last db.update_job call that returned
  dpc,             \* position of the caller inside api.core.dispatch
  djob,            \* the job_id enqueue returned to this dispatch call (0: not called)
  derr,            \* the stage of dispatch that raised ("none": none did)
  dispatched,      \* job ids that dispatch has returned to its caller
  rpc,             \* position of the caller inside api.core.run
  rgot,            \* what job_queue.wait returned to run (NoResult: nothing yet)
  rmon,            \* the monitor argument of the run call
  \* Gate construction
  gargs,           \* the arguments Gate(...) is called with
  gbuilt,          \* the Gate object constructed (NoGate: none)
  gerr,            \* how the construction ended ("pending": not called yet)
  \* the while loop of _commute_rotations, one iteration at a time
  lgates,          \* the list gates as the loop has rearranged it so far
  li,              \* the scan index i
  lperm,           \* for each place of lgates, the place its gate had in the input
  lpc,             \* "idle": not called, "scan": in the loop, "done": loop left
  \* calls of enqueue
  eargs            \* the priority and max_retries arguments of the last enqueue call

schedVars == <<pq, results, pc, item, job_run_result, exc, raised, backoff_duration,
               clock, issued, runs, devFails, orig, started, firstGetAt, faults, stored>>
waitVars == <<wpc, wjob, wgot>>
optVars == <<gates, out, opc, qubits, oerr, oqubits, odepth>>
dbVars == <<row, updates>>
dispVars == <<dpc, djob, derr, dispatched, rpc, rgot, rmon>>
gateVars == <<gargs, gbuilt, gerr>>
loopVars == <<lgates, li, lperm, lpc>>
callVars == <<eargs>>
vars == <<schedVars, waitVars, optVars, dbVars, dispVars, gateVars, loopVars, callVars>>

\* ------------------------------------------------------------ data model
PRIO_MAP == [high |-> 0, normal |-> 1, low |-> 2]

\* priority arguments enqueue is called with: names (any case), an unknown
\* name, a string that parses as an integer, and integers as dispatch
\* passes them
PriorityInputs == {"high", "normal", "low", "HIGH", "urgent", "2", "int0", "int2"}

\* str.lower() on priority strings
Lower(s) ==
  CASE s = "HIGH" -> "high"
    [] s = "High" -> "high"
    [] s = "LOW" -> "low"
    [] OTHER -> s

\* priority arguments that are int objects (isinstance(priority, int)), and
\* their values
IntValue ==
  ("int0" :> 0) @@ ("int1" :> 1) @@ ("int2" :> 2) @@ ("int5" :> 5) @@ ("int-3" :> -3)

\* int(s) on a string: the strings it accepts and their values (any other
\* string raises ValueError)
ParseInt == ("0" :> 0) @@ ("2" :> 2) @@ ("5" :> 5) @@ ("-3" :> -3)

NoItem == [priority |-> -1, enqueue_time |-> -1, job_id |-> 0,
           max_retries |-> -1, attempt |-> -1]
NoResult == [kind |-> "none", src |-> "none", run |-> 0]
\* enqueue not called yet
NoArgs == [priority |-> "none", max_retries |-> -1]
\* the keyword arguments of enqueue(device_cls, circ, priority=..., max_retries=...)
EnqueueArgs(priority, max_retries) == [priority |-> priority, max_retries |-> max_retries]

OkValue(n) == [kind |-> "ok", src |-> "run", run |-> n]
\* an exception: raised by a device step or by a persistence/logging call,
\* in the worker's n-th execution of the job
ErrValue(src, n) == [kind |-> "err", src |-> src, run |-> n]

\* _PQItem is a dataclass(order=True): records compare as the tuples
\* (priority, enqueue_time); the other fields take no part
LessMutReversed(a, b) ==
  \/ a.priority > b.priority
  \/ a.priority = b.priority /\ a.enqueue_time < b.enqueue_time
Less(a, b) ==
  \/ a.priority < b.priority
  \/ a.priority = b.priority /\ a.enqueue_time < b.enqueue_time

\* heapq._siftdown(heap, startpos, pos) with newitem = heap[pos]
\* (positions are 0-based as in the library, sequences 1-based)
RECURSIVE SiftDown(_, _, _, _)
SiftDown(heap, startpos, pos, newitem) ==
  IF pos > startpos
  THEN LET parentpos == (pos - 1) \div 2
           parent == heap[parentpos + 1]
       IN IF Less(newitem, parent)
          THEN SiftDown([heap EXCEPT ![pos + 1] = parent], startpos, parentpos, newitem)
          ELSE [heap EXCEPT ![pos + 1] = newitem]
  ELSE [heap EXCEPT ![pos + 1] = newitem]

\* heapq._siftup(heap, pos): bubble the smaller child up to a leaf, then
\* sift newitem down from there
RECURSIVE SiftUp(_, _, _)
SiftUp(heap, pos, newitem) ==
  LET endpos == Len(heap)
      childpos == 2 * pos + 1
  IN IF childpos < endpos
     THEN LET rightpos == childpos + 1
              c == IF rightpos < endpos /\ ~Less(heap[childpos + 1], heap[rightpos + 1])
                   THEN rightpos ELSE childpos
          IN SiftUp([heap EXCEPT ![pos + 1] = heap[c + 1]], c, newitem)
     ELSE SiftDown(heap, 0, pos, newitem)

\* PriorityQueue.put -> heapq.heappush
HeapPushMutOverwrite(heap, it) ==
  IF Len(heap) = 0 THEN <<it>> ELSE [heap EXCEPT ![Len(heap)] = it]
HeapPush(heap, it) == SiftDown(Append(heap, it), 0, Len(heap), it)

\* PriorityQueue.get -> heapq.heappop: the item returned, the heap left
HeapTopMutLast(heap) == heap[Len(heap)]
HeapTop(heap) == heap[1]
HeapRestMutKeep(heap) == heap
HeapRest(heap) ==
  IF Len(heap) = 1 THEN <<>>
  ELSE LET lastelt == heap[Len(heap)]
           h == SubSeq(heap, 1, Len(heap) - 1)
       IN SiftUp([h EXCEPT ![1] = lastelt], 0, lastelt)

Queued == {pq[i] : i \in 1..Len(pq)}
QueuedIds == {pq[i].job_id : i \in 1..Len(pq)}

\* enqueue's resolution of its priority argument to an int
ResolvePriority(p) ==
  IF p \in DOMAIN IntValue THEN IntValue[p]
  ELSE IF Lower(p) \in DOMAIN PRIO_MAP THEN PRIO_MAP[Lower(p)]
  ELSE IF p \in DOMAIN ParseInt THEN ParseInt[p]
  ELSE PRIO_MAP["normal"]

\* ------------------------------------------------------------------ Init
SchedInit ==
  /\ pq = <<>>
  /\ results = [j \in JobIds |-> NoResult]
  /\ pc = "get"
  /\ item = NoItem
  /\ job_run_result = NoResult
  /\ exc = NoResult
  /\ raised = "none"
  /\ backoff_duration = 0
  /\ clock = 0
  /\ issued = 0
  /\ runs = [j \in JobIds |-> 0]
  /\ devFails = [j \in JobIds |-> 0]
  /\ orig = [j \in JobIds |-> NoItem]
  /\ started = <<>>
  /\ firstGetAt = 0
  /\ faults = 0
  /\ stored = [j \in JobIds |-> NoResult]
  /\ eargs = NoArgs

WaitInit ==
  /\ wpc = [w \in Waiters |-> "idle"]
  /\ wjob = [w \in Waiters |-> 0]
  /\ wgot = [w \in Waiters |-> NoResult]

OptIdle ==
  /\ gates = <<>>
  /\ out = <<>>
  /\ opc = "none"
  /\ qubits = 0
  /\ oerr = "none"
  /\ oqubits = 0
  /\ odepth = 0

\* no row in the jobs table, no dispatch call in progress
DbInit ==
  /\ row = [j \in JobIds |-> "absent"]
  /\ updates = [j \in JobIds |-> "none"]

DispatchIdle ==
  /\ dpc = "idle"
  /\ djob = 0
  /\ derr = "none"
  /\ dispatched = {}
  /\ rpc = "idle"
  /\ rgot = NoResult
  /\ rmon = TRUE

\* Gate not called, _commute_rotations not called
NoGate == [op |-> "none", target |-> -1, control |-> -1, params |-> -1]

GateIdle ==
  /\ gargs = NoGate
  /\ gbuilt = NoGate
  /\ gerr = "pending"

LoopIdle ==
  /\ lgates = <<>>
  /\ li = 0
  /\ lperm = <<>>
  /\ lpc = "idle"

Init == SchedInit /\ WaitInit /\ OptIdle /\ DbInit /\ DispatchIdle /\ GateIdle /\ LoopIdle

\* --------------------------------------------------------------- clock
\* time.time() is the wall clock: it advances, two readings can be equal,
\* and it returns a lower value after the system clock has been set back
Tick ==
  /\ clock < MaxClock
  /\ clock' = clock + 1
  /\ UNCHANGED <<pq, results, pc, item, job_run_result, exc, raised, backoff_duration,
                 issued, runs, devFails, orig, started, firstGetAt, faults, stored>>
  /\ UNCHANGED <<waitVars, optVars, dbVars, dispVars, gateVars, loopVars, callVars>>

ClockSetBack ==
  /\ clock > 0
  /\ clock' \in 0..(clock - 1)
  /\ UNCHANGED <<pq, results, pc, item, job_run_result, exc, raised, backoff_duration,
                 issued, runs, devFails, orig, started, firstGetAt, faults, stored>>
  /\ UNCHANGED <<waitVars, optVars, dbVars, dispVars, gateVars, loopVars, callVars>>

\* --------------------------------------------------------------- enqueue
NewItem(job_id, priority, max_retries) ==
  [priority |-> ResolvePriority(priority), enqueue_time |-> clock,
   job_id |-> job_id, max_retries |-> max_retries, attempt |-> 0]

EnqueueWith(limit, priority, max_retries) ==
  /\ issued < limit
  /\ LET job_id == issued + 1
         it == NewItem(job_id, priority, max_retries)
     IN /\ pq' = HeapPush(pq, it)
        /\ issued' = job_id
        /\ orig' = [orig EXCEPT ![job_id] = it]
  /\ eargs' = EnqueueArgs(priority, max_retries)
  /\ UNCHANGED <<results, pc, item, job_run_result, exc, raised, backoff_duration,
                 clock, runs, devFails, started, firstGetAt, faults, stored>>
  /\ UNCHANGED <<waitVars, optVars, dbVars, dispVars, gateVars, loopVars>>

Enqueue == \E p \in PriorityInputs, m \in 0..MaxRetries : EnqueueWith(MaxJobs, p, m)

\* ----------------------------------------------------------- persistence
\* db.update_job(job_id, status=...): UPDATE jobs SET ... WHERE id=:id changes
\* the row of the job if there is one, and nothing otherwise; a sqlite3.Error
\* of the statement (the database locked by another connection past the
\* busy timeout) is caught and printed, and the row stays as it was
UpdateRow(rows, job_id, status, sqlite_error) ==
  IF rows[job_id] = "absent" \/ sqlite_error THEN rows
  ELSE [rows EXCEPT ![job_id] = status]

\* the record of a db.update_job call that has returned
UpdateIssuedMutSkip(upd, job_id, status) == upd
UpdateIssued(upd, job_id, status) == [upd EXCEPT ![job_id] = status]

\* db.update_job(job_id, status=status, ...) returns
UpdateJobOf(job_id, status) ==
  /\ \E sqlite_error \in BOOLEAN : row' = UpdateRow(row, job_id, status, sqlite_error)
  /\ updates' = UpdateIssued(updates, job_id, status)

\* the worker's call: db.update_job(item.job_id, status=status, ...) returns
UpdateJob(status) == UpdateJobOf(item.job_id, status)

\* the persistence calls of a path up to the one that raises: db.update_job
\* has returned when the logger raises, and has changed nothing when it
\* raises itself
UpdateJobBefore(step, status) ==
  IF step = "log" THEN UpdateJob(status) ELSE UNCHANGED dbVars

\* ---------------------------------------------------------------- worker
\* item: _PQItem = _pq.get(timeout=1), up to the start of the device steps
Dequeue ==
  /\ pc = "get"
  /\ Len(pq) > 0
  /\ item' = HeapTop(pq)
  /\ pq' = HeapRest(pq)
  /\ pc' = "run"
  /\ job_run_result' = NoResult
  /\ runs' = [runs EXCEPT ![item'.job_id] = @ + 1]
  /\ started' = IF runs[item'.job_id] = 0 THEN Append(started, item'.job_id) ELSE started
  /\ firstGetAt' = IF firstGetAt = 0 THEN issued ELSE firstGetAt
  /\ UNCHANGED <<results, exc, raised, backoff_duration, clock, issued, devFails, orig, faults, stored>>
  /\ UNCHANGED <<waitVars, optVars, dbVars, dispVars, gateVars, loopVars, callVars>>

\* except Exception as e: item.attempt += 1, then the retry test
HandlerAttemptMutTwice(it) == [it EXCEPT !.attempt = @ + 2]
HandlerAttempt(it) == [it EXCEPT !.attempt = @ + 1]
HandlerRetriesMutStrict(it) == it.attempt < it.max_retries
HandlerRetries(it) == it.attempt <= it.max_retries
BackoffDurationMutLinear(it) == it.attempt
BackoffDuration(it) == 2 ^ (it.attempt - 1)

Handle(e, step) ==
  /\ exc' = e
  /\ raised' = step
  /\ item' = HandlerAttempt(item)
  /\ IF HandlerRetries(item')
     THEN /\ pc' = "sleep"
          /\ backoff_duration' = BackoffDuration(item')
     ELSE /\ pc' = "final"
          /\ backoff_duration' = backoff_duration

\* device = item.device_cls(); compile; run; monitor: all return
DeviceReturns ==
  /\ pc = "run"
  /\ job_run_result' = OkValue(runs[item.job_id])
  /\ pc' = "persist"
  /\ UNCHANGED <<pq, results, item, exc, raised, backoff_duration, clock, issued,
                 runs, devFails, orig, started, firstGetAt, faults, stored>>
  /\ UNCHANGED <<waitVars, optVars, dbVars, dispVars, gateVars, loopVars, callVars>>

\* one of the device steps raises ("compile": item.device_cls() or
\* device.compile; "monitor": device.monitor, after run has returned)
DeviceSteps == {"compile", "run", "monitor"}
DeviceRaises ==
  /\ pc = "run"
  /\ faults < MaxFaults
  /\ \E step \in DeviceSteps :
       /\ Handle(ErrValue("device", runs[item.job_id]), step)
       /\ job_run_result' = IF step = "monitor" THEN OkValue(runs[item.job_id])
                            ELSE job_run_result
  /\ devFails' = [devFails EXCEPT ![item.job_id] = @ + 1]
  /\ faults' = faults + 1
  /\ UNCHANGED <<pq, results, clock, issued, runs, orig, started, firstGetAt, stored>>
  /\ UNCHANGED <<waitVars, optVars, dbVars, dispVars, gateVars, loopVars, callVars>>

\* db.update_job(status="completed") and logger.log_complete return
PersistCompleted ==
  /\ pc = "persist"
  /\ pc' = "store"
  /\ UpdateJob("completed")
  /\ UNCHANGED <<pq, results, item, job_run_result, exc, raised, backoff_duration, clock,
                 issued, runs, devFails, orig, started, firstGetAt, faults, stored>>
  /\ UNCHANGED <<waitVars, optVars, dispVars, gateVars, loopVars, callVars>>

\* db.update_job or logger.log_complete raises inside the try block
PersistSteps == {"update_job", "log"}
PersistCompletedRaises ==
  /\ pc = "persist"
  /\ faults < MaxFaults
  /\ \E step \in PersistSteps :
       /\ Handle(ErrValue("persist", runs[item.job_id]), step)
       /\ UpdateJobBefore(step, "completed")
  /\ faults' = faults + 1
  /\ UNCHANGED <<pq, results, job_run_result, clock, issued, runs, devFails,
                 orig, started, firstGetAt, stored>>
  /\ UNCHANGED <<waitVars, optVars, dispVars, gateVars, loopVars, callVars>>

\* _results[item.job_id] = job_run_result; finally: task_done; next iteration
StoreResult ==
  /\ pc = "store"
  /\ results' = [results EXCEPT ![item.job_id] = job_run_result]
  /\ stored' = [stored EXCEPT ![item.job_id] = job_run_result]
  /\ pc' = "get"
  /\ item' = NoItem
  /\ job_run_result' = NoResult
  /\ orig' = [orig EXCEPT ![item.job_id] = NoItem]
  /\ UNCHANGED <<pq, exc, raised, backoff_duration, clock, issued, runs, devFails,
                 started, firstGetAt, faults>>
  /\ UNCHANGED <<waitVars, optVars, dbVars, dispVars, gateVars, loopVars, callVars>>

\* time.sleep(backoff_duration) ends; _pq.put(item); finally: task_done
RequeuedItemMutFresh(it) == [it EXCEPT !.enqueue_time = clock]
RequeuedItem(it) == it
RequeuePutMutDrop(heap, it) == heap
RequeuePut(heap, it) == HeapPush(heap, it)

Requeue ==
  /\ pc = "sleep"
  /\ pq' = RequeuePut(pq, RequeuedItem(item))
  /\ pc' = "get"
  /\ item' = NoItem
  /\ exc' = NoResult
  /\ raised' = "none"
  /\ backoff_duration' = 0
  /\ job_run_result' = NoResult
  /\ UNCHANGED <<results, clock, issued, runs, devFails, orig, started, firstGetAt, faults, stored>>
  /\ UNCHANGED <<waitVars, optVars, dbVars, dispVars, gateVars, loopVars, callVars>>

\* retries exhausted: db.update_job(status="failed") and logger.log_error return
PersistFailed ==
  /\ pc = "final"
  /\ pc' = "store_err"
  /\ UpdateJob("failed")
  /\ UNCHANGED <<pq, results, item, job_run_result, exc, raised, backoff_duration, clock,
                 issued, runs, devFails, orig, started, firstGetAt, faults, stored>>
  /\ UNCHANGED <<waitVars, optVars, dispVars, gateVars, loopVars, callVars>>

\* db.update_job or logger.log_error raises inside the except block: nothing
\* catches it, finally runs task_done and the exception leaves _worker
PersistFailedRaises ==
  /\ pc = "final"
  /\ pc' = "dead"
  /\ faults < MaxFaults
  /\ \E step \in PersistSteps :
       /\ raised' = step
       /\ UpdateJobBefore(step, "failed")
  /\ faults' = faults + 1
  /\ UNCHANGED <<pq, results, item, job_run_result, exc, backoff_duration, clock,
                 issued, runs, devFails, orig, started, firstGetAt, stored>>
  /\ UNCHANGED <<waitVars, optVars, dispVars, gateVars, loopVars, callVars>>

\* _results[item.job_id] = e; finally: task_done; next iteration
StoreError ==
  /\ pc = "store_err"
  /\ results' = [results EXCEPT ![item.job_id] = exc]
  /\ stored' = [stored EXCEPT ![item.job_id] = exc]
  /\ pc' = "get"
  /\ item' = NoItem
  /\ exc' = NoResult
  /\ raised' = "none"
  /\ job_run_result' = NoResult
  /\ orig' = [orig EXCEPT ![item.job_id] = NoItem]
  /\ UNCHANGED <<pq, backoff_duration, clock, issued, runs, devFails,
                 started, firstGetAt, faults>>
  /\ UNCHANGED <<waitVars, optVars, dbVars, dispVars, gateVars, loopVars, callVars>>

WorkerReliable ==
  \/ Dequeue
  \/ DeviceReturns
  \/ DeviceRaises
  \/ PersistCompleted
  \/ StoreResult
  \/ Requeue
  \/ PersistFailed
  \/ StoreError

Worker ==
  \/ WorkerReliable
  \/ PersistCompletedRaises
  \/ PersistFailedRaises

\* ------------------------------------------------------------------ wait
\* a caller enters wait(job_id); any identifier can be asked for, also one
\* that enqueue has not returned yet
WaitCall(w, j) ==
  /\ wpc[w] = "idle"
  /\ wpc' = [wpc EXCEPT ![w] = "poll"]
  /\ wjob' = [wjob EXCEPT ![w] = j]
  /\ UNCHANGED <<wgot, schedVars, optVars, dbVars, dispVars, gateVars, loopVars, callVars>>

\* while job_id not in _results: time.sleep(0.1) -- the test comes out false
\* (while the key is absent the caller sleeps and tests again)
WaitSeen(w) ==
  /\ wpc[w] = "poll"
  /\ results[wjob[w]] # NoResult
  /\ wpc' = [wpc EXCEPT ![w] = "pop"]
  /\ UNCHANGED <<wjob, wgot, schedVars, optVars, dbVars, dispVars, gateVars, loopVars, callVars>>

\* return _results.pop(job_id): the value is removed and returned, or
\* KeyError when the key is gone
PopValue(res, j) == res[j]
PopRestMutKeep(res, j) == res
PopRest(res, j) == [res EXCEPT ![j] = NoResult]

WaitPop(w) ==
  /\ wpc[w] = "pop"
  /\ IF results[wjob[w]] # NoResult
     THEN /\ wgot' = [wgot EXCEPT ![w] = PopValue(results, wjob[w])]
          /\ results' = PopRest(results, wjob[w])
          /\ wpc' = [wpc EXCEPT ![w] = "returned"]
     ELSE /\ wpc' = [wpc EXCEPT ![w] = "keyerror"]
          /\ UNCHANGED <<wgot, results>>
  /\ UNCHANGED <<wjob, pq, pc, item, job_run_result, exc, raised, backoff_duration,
                 clock, issued, runs, devFails, orig, started, firstGetAt, faults,
                 stored, optVars, dbVars, dispVars, gateVars, loopVars, callVars>>

\* the identifiers asked for: those enqueue can return, and one it never returns
WaitIds == 1..(MaxWaitJobs + 1)

Wait == \E w \in Waiters : (\E j \in WaitIds : WaitCall(w, j)) \/ WaitSeen(w) \/ WaitPop(w)

\* ------------------------------------------------------------ specifications
\* the scheduler: callers of enqueue, the wall clock, the worker thread
Next ==
  \/ Enqueue
  \/ Tick
  \/ ClockSetBack
  \/ Worker

Spec == Init /\ [][Next]_vars

\* the scheduler with callers of wait
EnqueueW == \E p \in PriorityInputs, m \in 0..MaxRetries : EnqueueWith(MaxWaitJobs, p, m)

WaitNext ==
  \/ EnqueueW
  \/ Worker
  \/ Wait

WaitSpec == Init /\ [][WaitNext]_vars

\* the scenario of three submissions: high, low, high, in that order
ScenarioPriorities == <<"high", "low", "high">>
EnqueueScenario ==
  \E m \in 0..MaxRetries :
    EnqueueWith(Len(ScenarioPriorities),
                IF issued < Len(ScenarioPriorities) THEN ScenarioPriorities[issued + 1] ELSE "normal",
                m)

ScenarioNext ==
  \/ EnqueueScenario
  \/ Tick
  \/ ClockSetBack
  \/ Worker

ScenarioSpec == Init /\ [][ScenarioNext]_vars

\* submissions under a clock that only advances, devices and collaborators
\* that never raise
EnqueueF == \E p \in PriorityInputs : EnqueueWith(MaxFifoJobs, p, 0)

FifoNext ==
  \/ EnqueueF
  \/ Tick
  \/ Dequeue
  \/ DeviceReturns
  \/ PersistCompleted
  \/ StoreResult

FifoSpec == Init /\ [][FifoNext]_vars

\* jobs with up to MaxBackoffRetries retries on a device that may fail in
\* every execution; persistence and logging are reliable
EnqueueB ==
  \E p \in PriorityInputs, m \in 0..MaxBackoffRetries : EnqueueWith(MaxBackoffJobs, p, m)

\* one of the device steps raises, in any execution
DeviceFails ==
  /\ pc = "run"
  /\ \E step \in DeviceSteps :
       /\ Handle(ErrValue("device", runs[item.job_id]), step)
       /\ job_run_result' = IF step = "monitor" THEN OkValue(runs[item.job_id])
                            ELSE job_run_result
  /\ devFails' = [devFails EXCEPT ![item.job_id] = @ + 1]
  /\ UNCHANGED <<pq, results, clock, issued, runs, orig, started, firstGetAt, faults, stored>>
  /\ UNCHANGED <<waitVars, optVars, dbVars, dispVars, gateVars, loopVars, callVars>>

BackoffNext ==
  \/ EnqueueB
  \/ Tick
  \/ Dequeue
  \/ DeviceReturns
  \/ DeviceFails
  \/ PersistCompleted
  \/ StoreResult
  \/ Requeue
  \/ PersistFailed
  \/ StoreError

BackoffSpec == Init /\ [][BackoffNext]_vars

\* an endless stream of submissions, reliable persistence and logging, a fair
\* worker and one fair caller of wait.  A uuid never repeats; here a job's
\* name is free for a later submission once wait has removed its outcome,
\* and what was recorded about the earlier job of that name is forgotten.
LiveIds == 1..MaxLiveJobs
LiveWaiter == 1

Forget(seq, j) == SelectSeq(seq, LAMBDA x : x # j)

EnqueueAs(job_id, priority, max_retries) ==
  /\ orig[job_id] = NoItem
  /\ results[job_id] = NoResult
  /\ \A w \in Waiters : wjob[w] # job_id
  /\ LET it == NewItem(job_id, priority, max_retries)
     IN /\ pq' = HeapPush(pq, it)
        /\ orig' = [orig EXCEPT ![job_id] = it]
  /\ runs' = [runs EXCEPT ![job_id] = 0]
  /\ devFails' = [devFails EXCEPT ![job_id] = 0]
  /\ stored' = [stored EXCEPT ![job_id] = NoResult]
  /\ started' = Forget(started, job_id)
  /\ updates' = [updates EXCEPT ![job_id] = "none"]
  /\ eargs' = EnqueueArgs(priority, max_retries)
  /\ UNCHANGED <<results, pc, item, job_run_result, exc, raised, backoff_duration,
                 clock, issued, firstGetAt, faults>>
  /\ UNCHANGED <<waitVars, optVars, row, dispVars, gateVars, loopVars>>

EnqueueL == \E j \in LiveIds, p \in PriorityInputs, m \in 0..MaxRetries : EnqueueAs(j, p, m)

\* the caller waits for a job that enqueue has returned
WaitCallL == \E j \in LiveIds : (orig[j] # NoItem \/ results[j] # NoResult) /\ WaitCall(LiveWaiter, j)

\* wait has returned to its caller, who may call again
WaitReturn(w) ==
  /\ wpc[w] = "returned"
  /\ wpc' = [wpc EXCEPT ![w] = "idle"]
  /\ wjob' = [wjob EXCEPT ![w] = 0]
  /\ wgot' = [wgot EXCEPT ![w] = NoResult]
  /\ UNCHANGED <<schedVars, optVars, dbVars, dispVars, gateVars, loopVars, callVars>>

WaitStep == WaitSeen(LiveWaiter) \/ WaitPop(LiveWaiter)

LiveNext ==
  \/ EnqueueL
  \/ Tick
  \/ ClockSetBack
  \/ WorkerReliable
  \/ WaitCallL
  \/ WaitStep
  \/ WaitReturn(LiveWaiter)

LiveSpec == Init /\ [][LiveNext]_vars /\ WF_vars(WorkerReliable) /\ WF_vars(WaitStep)

\* one caller that calls wait again and again, for any job id, beside a fair
\* worker
WaitCallAgain == \E j \in WaitIds : WaitCall(LiveWaiter, j)

TwiceNext ==
  \/ EnqueueW
  \/ Worker
  \/ WaitCallAgain
  \/ WaitStep
  \/ WaitReturn(LiveWaiter)

TwiceSpec == Init /\ [][TwiceNext]_vars /\ WF_vars(Worker) /\ WF_vars(WaitStep)

\* ================================================================ dispatch
\* api.core.dispatch, one statement at a time, beside the worker thread.
\* The statements in program order: parser.parse, optimizer.optimize,
\* metrics.calculate, qasm_gen.emit, qpu_router.select, job_queue.enqueue,
\* db.insert_job, logger.log_submit, return job_id.
StageAfterMutEnqueueFirst(stage) ==
  CASE stage = "parse" -> "optimize"
    [] stage = "optimize" -> "metrics"
    [] stage = "metrics" -> "emit"
    [] stage = "emit" -> "enqueue"
    [] stage = "enqueue" -> "select"
    [] stage = "select" -> "insert"
    [] stage = "insert" -> "log"
    [] stage = "log" -> "returned"

StageAfter(stage) ==
  CASE stage = "parse" -> "optimize"
    [] stage = "optimize" -> "metrics"
    [] stage = "metrics" -> "emit"
    [] stage = "emit" -> "select"
    [] stage = "select" -> "enqueue"
    [] stage = "enqueue" -> "insert"
    [] stage = "insert" -> "log"
    [] stage = "log" -> "returned"

\* the statements that touch neither the queue nor the database
CompileStages == {"parse", "optimize", "metrics", "emit", "select"}
\* the statements that can raise: the compile stages (a malformed model, a
\* pass that fails, an unknown backend in DEVICE_REGISTRY[name]) and the two
\* collaborator calls after enqueue
RaisingStages == CompileStages \cup {"insert", "log"}

\* db.insert_job(rec): INSERT INTO jobs (..., status, ...) VALUES (..., 'queued', ...)
InsertRow(rows, job_id) == [rows EXCEPT ![job_id] = "queued"]

\* api.core.run is between its call and its return. dispatch and run are
\* called from one thread, one call at a time
RunActive == rpc \notin {"idle", "returned", "raised"}

\* dispatch(model_path, backend, priority=..., max_retries=...) is called
DispatchCall ==
  /\ dpc \in {"idle", "returned", "raised"}
  /\ ~RunActive
  /\ issued < MaxDispatchJobs
  /\ dpc' = "parse"
  /\ djob' = 0
  /\ derr' = "none"
  /\ UNCHANGED <<dispatched, rpc, rgot, rmon, schedVars, waitVars, optVars, dbVars, gateVars, loopVars, callVars>>

\* one of the compile stages returns
DispatchStep ==
  /\ dpc \in CompileStages
  /\ dpc' = StageAfter(dpc)
  /\ UNCHANGED <<djob, derr, dispatched, rpc, rgot, rmon, schedVars, waitVars, optVars, dbVars, gateVars, loopVars, callVars>>

\* the statement dispatch is at raises and the exception leaves dispatch,
\* and run when run made the call
DispatchRaises ==
  /\ dpc \in RaisingStages
  /\ derr' = dpc
  /\ dpc' = "raised"
  /\ rpc' = IF rpc = "dispatch" THEN "raised" ELSE rpc
  /\ UNCHANGED <<djob, dispatched, rgot, rmon, schedVars, waitVars, optVars, dbVars, gateVars, loopVars, callVars>>

\* the priority argument of dispatch is a string (priority.lower()): a name
\* in any case, an unknown name or a string that parses as an integer
DispatchPriorityInputs == {"high", "normal", "low", "HIGH", "urgent", "2"}

\* the integer prio_val as an argument of enqueue
IntArg(n) == CHOOSE t \in DOMAIN IntValue : IntValue[t] = n

\* dispatch's priority resolution (the same _PRIO_MAP lookup, int(...) and
\* default as in enqueue)
DispatchPrioVal(priority) == IntArg(ResolvePriority(priority))

\* priority resolution, then job_id = job_queue.enqueue(device_cls, circ_qasm,
\* priority=prio_val, max_retries=max_retries)
DispatchEnqueue ==
  /\ dpc = "enqueue"
  /\ \E prio \in DispatchPriorityInputs, max_retries \in 0..MaxRetries :
       LET job_id == issued + 1
           priority == DispatchPrioVal(prio)
           it == NewItem(job_id, priority, max_retries)
       IN /\ pq' = HeapPush(pq, it)
          /\ issued' = job_id
          /\ orig' = [orig EXCEPT ![job_id] = it]
          /\ djob' = job_id
          /\ eargs' = EnqueueArgs(priority, max_retries)
  /\ dpc' = StageAfter(dpc)
  /\ UNCHANGED <<results, pc, item, job_run_result, exc, raised, backoff_duration,
                 clock, runs, devFails, started, firstGetAt, faults, stored>>
  /\ UNCHANGED <<derr, dispatched, rpc, rgot, rmon, waitVars, optVars, dbVars, gateVars, loopVars>>

\* db.insert_job({"id": job_id, ...}) returns
DispatchInsert ==
  /\ dpc = "insert"
  /\ row' = InsertRow(row, djob)
  /\ dpc' = StageAfter(dpc)
  /\ UNCHANGED <<updates, djob, derr, dispatched, rpc, rgot, rmon, schedVars, waitVars, optVars, gateVars, loopVars, callVars>>

\* logger.log_submit returns; return job_id (to run, which goes on to
\* job_queue.wait, when run made the call)
DispatchReturn ==
  /\ dpc = "log"
  /\ dpc' = StageAfter(dpc)
  /\ dispatched' = dispatched \cup {djob}
  /\ rpc' = IF rpc = "dispatch" THEN "wait" ELSE rpc
  /\ UNCHANGED <<djob, derr, rgot, rmon, schedVars, waitVars, optVars, dbVars, gateVars, loopVars, callVars>>

Dispatch ==
  \/ DispatchCall
  \/ DispatchStep
  \/ DispatchRaises
  \/ DispatchEnqueue
  \/ DispatchInsert
  \/ DispatchReturn

\* ---------------------------------------------------------- api.core.run
\* run(model_path, backend, priority=..., max_retries=..., monitor=...) is
\* called: _resolve_path returns the path, then dispatch(...) is entered on
\* the same thread
RunCall ==
  /\ dpc \in {"idle", "returned", "raised"}
  /\ ~RunActive
  /\ issued < MaxDispatchJobs
  /\ \E monitor \in BOOLEAN : rmon' = monitor
  /\ rpc' = "dispatch"
  /\ rgot' = NoResult
  /\ dpc' = "parse"
  /\ djob' = 0
  /\ derr' = "none"
  /\ UNCHANGED <<dispatched, schedVars, waitVars, optVars, dbVars, gateVars, loopVars, callVars>>

\* run is called and _resolve_path raises FileNotFoundError (the model file
\* is not found): the exception leaves run before dispatch is entered
RunCallRaises ==
  /\ dpc \in {"idle", "returned", "raised"}
  /\ ~RunActive
  /\ \E monitor \in BOOLEAN : rmon' = monitor
  /\ rpc' = "raised"
  /\ rgot' = NoResult
  /\ UNCHANGED <<dpc, djob, derr, dispatched, schedVars, waitVars, optVars, dbVars,
                 gateVars, loopVars, callVars>>

\* result = job_queue.wait(job_id): the outcome is there and is popped. The
\* job_id is known to this call of run alone, so no other wait removes it
\* between the test and the pop
RunWait ==
  /\ rpc = "wait"
  /\ results[djob] # NoResult
  /\ rgot' = PopValue(results, djob)
  /\ results' = PopRest(results, djob)
  /\ rpc' = "read"
  /\ UNCHANGED <<pq, pc, item, job_run_result, exc, raised, backoff_duration,
                 clock, issued, runs, devFails, orig, started, firstGetAt, faults,
                 stored>>
  /\ UNCHANGED <<dpc, djob, derr, dispatched, rmon, waitVars, optVars, dbVars,
                 gateVars, loopVars, callVars>>

\* job_details_from_db = db.get_job_by_id(job_id) returns
RunRead ==
  /\ rpc = "read"
  /\ rpc' = "update"
  /\ UNCHANGED <<dpc, djob, derr, dispatched, rgot, rmon, schedVars, waitVars,
                 optVars, dbVars, gateVars, loopVars, callVars>>

\* completion_status: "completed" unless result is an Exception
CompletionStatus(result) == IF result.kind = "ok" THEN "completed" ELSE "failed"

\* db.update_job(job_id=job_id, status=completion_status, ...) returns
RunUpdate ==
  /\ rpc = "update"
  /\ UpdateJobOf(djob, CompletionStatus(rgot))
  /\ rpc' = "log"
  /\ UNCHANGED <<dpc, djob, derr, dispatched, rgot, rmon, schedVars, waitVars,
                 optVars, gateVars, loopVars, callVars>>

\* if monitor: logger.log_complete / logger.log_error returns
RunLog ==
  /\ rpc = "log"
  /\ rpc' = "logs"
  /\ UNCHANGED <<dpc, djob, derr, dispatched, rgot, rmon, schedVars, waitVars,
                 optVars, dbVars, gateVars, loopVars, callVars>>

\* if monitor: logs(job_id) returns
RunLogs ==
  /\ rpc = "logs"
  /\ rpc' = "return"
  /\ UNCHANGED <<dpc, djob, derr, dispatched, rgot, rmon, schedVars, waitVars,
                 optVars, dbVars, gateVars, loopVars, callVars>>

\* return result
RunReturn ==
  /\ rpc = "return"
  /\ rpc' = "returned"
  /\ UNCHANGED <<dpc, djob, derr, dispatched, rgot, rmon, schedVars, waitVars,
                 optVars, dbVars, gateVars, loopVars, callVars>>

\* the statements of run after wait that can raise: the two database calls,
\* and the two logger calls when monitor is set; a db.update_job that raises
\* has changed nothing
RunRaisingStages(monitor) ==
  {"read", "update"} \cup (IF monitor THEN {"log", "logs"} ELSE {})

RunRaises ==
  /\ rpc \in RunRaisingStages(rmon)
  /\ rpc' = "raised"
  /\ UNCHANGED <<dpc, djob, derr, dispatched, rgot, rmon, schedVars, waitVars,
                 optVars, dbVars, gateVars, loopVars, callVars>>

Run ==
  \/ RunCall
  \/ RunCallRaises
  \/ RunWait
  \/ RunRead
  \/ RunUpdate
  \/ RunLog
  \/ RunLogs
  \/ RunReturn
  \/ RunRaises

DispatchNext ==
  \/ Dispatch
  \/ Run
  \/ Tick
  \/ Worker

DispatchSpec == Init /\ [][DispatchNext]_vars

\* ============================================================== optimizer
\* None, for the optional fields of a Gate (target, control, params)
None == -1

\* optimizer._INV
INVMutOneWay == [X |-> "X", Y |-> "Y", Z |-> "Z", H |-> "H", T |-> "TDG", S |-> "SDG"]
INV == [X |-> "X", Y |-> "Y", Z |-> "Z", H |-> "H",
        T |-> "TDG", TDG |-> "T", S |-> "SDG", SDG |-> "S"]

\* _INV.get(op): None for an op that is no key
InvGet(op) == IF op \in DOMAIN INV THEN INV[op] ELSE "None"

MkGate(op, target, control, params) ==
  [op |-> op, target |-> target, control |-> control, params |-> params]

\* the gates the passes are tried on: parameter-less one-qubit gates on two
\* wires, a gate that carries params, a controlled X, a CX and a rotation
\* (a params value stands for the GateParams object of that angle)
GateUniverse ==
  {MkGate(op, t, None, None) : op \in {"X", "H", "S", "SDG"}, t \in {0, 1}}
    \cup {MkGate("X", 0, None, 1), MkGate("X", 0, 1, None),
          MkGate("CX", 0, 1, None), MkGate("RZ", 0, None, 1)}

RECURSIVE SeqsUpTo(_, _)
SeqsUpTo(S, n) ==
  IF n = 0 THEN {<<>>}
  ELSE LET shorter == SeqsUpTo(S, n - 1)
       IN shorter \cup {Append(q, x) : q \in {r \in shorter : Len(r) = n - 1}, x \in S}

\* the test of _cancel_inverses: g undoes the last gate of the buffer
CancelsTop(g, o) ==
  /\ Len(o) > 0
  /\ InvGet(g.op) = o[Len(o)].op
  /\ g.target = o[Len(o)].target
  /\ g.control = o[Len(o)].control
  /\ g.params = None
  /\ o[Len(o)].params = None

\* _cancel_inverses: for g in gates: out.pop() on a match, else out.append(g)
RECURSIVE CancelLoop(_, _, _)
CancelLoop(gs, i, o) ==
  IF i > Len(gs) THEN o
  ELSE IF CancelsTop(gs[i], o)
       THEN CancelLoop(gs, i + 1, SubSeq(o, 1, Len(o) - 1))
       ELSE CancelLoop(gs, i + 1, Append(o, gs[i]))

\* a single sweep that removes the first matching pair only
cancel_inversesMutOnePair(gs) ==
  LET hits == {k \in 2..Len(gs) : CancelsTop(gs[k], SubSeq(gs, 1, k - 1))}
  IN IF hits = {} THEN gs
     ELSE LET k == CHOOSE h \in hits : \A n \in hits : h <= n
          IN SubSeq(gs, 1, k - 2) \o SubSeq(gs, k + 1, Len(gs))

cancel_inverses(gs) == CancelLoop(gs, 1, <<>>)

OptInit ==
  /\ SchedInit
  /\ WaitInit
  /\ DbInit
  /\ DispatchIdle
  /\ GateIdle
  /\ LoopIdle
  /\ gates \in SeqsUpTo(GateUniverse, MaxGates)
  /\ out = <<>>
  /\ opc = "none"
  /\ qubits = 0
  /\ oerr = "none"
  /\ oqubits = 0
  /\ odepth = 0

CancelInverses ==
  /\ opc = "none"
  /\ out' = cancel_inverses(gates)
  /\ opc' = "cancel"
  /\ UNCHANGED <<gates, qubits, oerr, oqubits, odepth, schedVars, waitVars, dbVars, dispVars, gateVars, loopVars, callVars>>

OptNext == CancelInverses

OptSpec == OptInit /\ [][OptNext]_vars

\* ------------------------------------------------ the passes after the first
\* what a pass gives: the list it returned, or the exception that left it
PassOk(gs) == [err |-> "none", gates |-> gs]
PassRaised(e) == [err |-> e, gates |-> <<>>]

\* optimizer._ROT
ROT == {"RX", "RY", "RZ"}

\* the test of _fuse_rotations; a GateParams object is truthy, so
\* "g.params and out[-1].params" asks that neither is None
FusesWithTop(g, o) ==
  /\ Len(o) > 0
  /\ g.op \in ROT
  /\ g.op = o[Len(o)].op
  /\ g.target = o[Len(o)].target
  /\ g.control = o[Len(o)].control
  /\ g.params # None
  /\ o[Len(o)].params # None

\* _fuse_rotations: on a match the first statement of the branch is
\* g.params.get("theta", 0.0); GateParams is a pydantic model with the one
\* field params and no get, so AttributeError leaves the pass there
RECURSIVE FuseLoop(_, _, _)
FuseLoop(gs, i, o) ==
  IF i > Len(gs) THEN PassOk(o)
  ELSE IF FusesWithTop(gs[i], o)
       THEN PassRaised("AttributeError")
       ELSE FuseLoop(gs, i + 1, Append(o, gs[i]))

fuse_rotations(gs) == FuseLoop(gs, 1, <<>>)

\* can_commute of _commute_rotations, g1 = gates[i], g2 = gates[i + 1]
CanCommuteMutBothWays(g1, g2) ==
  \/ g1.op \in {"CX", "CZ"} /\ g2.op = "RZ"
  \/ g1.op = "RZ" /\ g2.op \in {"CX", "CZ"}
CanCommuteMutAnyWire(g1, g2) ==
  /\ g1.op \in {"CX", "CZ"}
  /\ g2.op = "RZ"
CanCommute(g1, g2) ==
  /\ g1.op \in {"CX", "CZ"}
  /\ g2.op = "RZ"
  /\ \/ g2.target = g1.control
     \/ g1.op = "CZ" /\ g2.target = g1.target

Swapped(gs, i) == [gs EXCEPT ![i + 1] = gs[i + 2], ![i + 2] = gs[i + 1]]

\* the while loop of _commute_rotations, i counted from 0 as in the code
RECURSIVE CommuteLoop(_, _)
CommuteLoop(gs, i) ==
  IF i < Len(gs) - 1
  THEN IF CanCommute(gs[i + 1], gs[i + 2])
       THEN CommuteLoop(Swapped(gs, i), IF i - 2 > 0 THEN i - 2 ELSE 0)
       ELSE CommuteLoop(gs, i + 1)
  ELSE gs

\* _commute_rotations: the loop, then return _fuse_rotations(gates)
commute_rotations(gs) == fuse_rotations(CommuteLoop(gs, 0))

\* ------------------------------------------------------- Gate validation
\* compiler/parser.py: Gate(op=..., target=..., control=..., params=...)
SUPPORTED_GATES ==
  {"H", "X", "Y", "Z", "S", "SDG", "T", "TDG", "RX", "RY", "RZ", "P", "PHASE",
   "U1", "U2", "U3", "U", "CX", "CNOT", "CY", "CZ", "CH", "CRX", "CRY", "CRZ",
   "CPHASE", "CP", "CU1", "SWAP", "CSWAP", "FREDKIN", "CCX", "TOFFOLI",
   "MEASURE", "BARRIER", "RESET"}

\* op arguments: names in upper, lower and mixed case, and a name that is
\* not supported
OpInputs ==
  {"H", "h", "rx", "RZ", "cx", "CX", "cnot", "CNOT", "Toffoli", "phase", "P",
   "cphase", "CP", "fredkin", "CSWAP", "swap", "foo"}

\* str.upper() on the names above
Upper(v) ==
  CASE v = "h" -> "H"
    [] v = "rx" -> "RX"
    [] v = "cx" -> "CX"
    [] v = "cnot" -> "CNOT"
    [] v = "Toffoli" -> "TOFFOLI"
    [] v = "phase" -> "PHASE"
    [] v = "cphase" -> "CPHASE"
    [] v = "fredkin" -> "FREDKIN"
    [] v = "swap" -> "SWAP"
    [] v = "foo" -> "FOO"
    [] OTHER -> v

alias_map == [CNOT |-> "CX", TOFFOLI |-> "CCX", PHASE |-> "P"]

AliasGet(v_upper) == IF v_upper \in DOMAIN alias_map THEN alias_map[v_upper] ELSE v_upper

\* Gate.validate_op_name_and_uppercase
validate_op_name_and_uppercase(v) ==
  LET v_upper == AliasGet(Upper(v))
  IN IF v_upper \notin SUPPORTED_GATES
     THEN [err |-> "ValueError", op |-> v]
     ELSE [err |-> "none", op |-> v_upper]

\* Gate.check_control_qubit_for_controlled_gates
controlled_ops == {"CX", "CY", "CZ", "CH", "CRX", "CRY", "CRZ", "CP", "CU1", "CSWAP", "CCX"}
check_control_qubit_for_controlled_gates(op, v) == ~(op \in controlled_ops /\ v = None)

\* a params argument that is neither None, a dict nor a GateParams
BadParams == -2
\* Gate.ensure_params_input_is_valid_or_already_processed
ensure_params_input_is_valid(v) == v # BadParams

\* Gate(...): the field validations in the order op, target, control, params;
\* target is a required int
GateNew(op, target, control, params) ==
  LET r == validate_op_name_and_uppercase(op)
  IN IF /\ r.err = "none"
        /\ target # None
        /\ check_control_qubit_for_controlled_gates(r.op, control)
        /\ ensure_params_input_is_valid(params)
     THEN [err |-> "none", gate |-> MkGate(r.op, target, control, params)]
     ELSE [err |-> "ValidationError", gate |-> NoGate]

\* _qubit_remap: mapping is kept as the list of original wires in the order
\* they were given new indices, so the new index of a wire is its place - 1
AllocMutAlways(mapping, w) == IF w = None THEN mapping ELSE Append(mapping, w)
Alloc(mapping, w) ==
  IF w = None \/ (\E k \in 1..Len(mapping) : mapping[k] = w) THEN mapping
  ELSE Append(mapping, w)

NewWireMutKeep(mapping, w) == w
NewWire(mapping, w) ==
  IF w = None THEN None
  ELSE (CHOOSE k \in 1..Len(mapping) : mapping[k] = w) - 1

RECURSIVE RemapLoop(_, _, _, _)
RemapLoop(gs, i, mapping, new_gates) ==
  IF i > Len(gs) THEN [err |-> "none", gates |-> new_gates, count |-> Len(mapping)]
  ELSE LET g == gs[i]
           m1 == Alloc(mapping, g.target)
           m2 == Alloc(m1, g.control)
           built == GateNew(g.op, NewWire(m1, g.target), NewWire(m2, g.control), g.params)
       IN IF built.err # "none"
          THEN [err |-> built.err, gates |-> <<>>, count |-> 0]
          ELSE RemapLoop(gs, i + 1, m2, Append(new_gates, built.gate))

qubit_remap(gs) == RemapLoop(gs, 1, <<>>, <<>>)

\* _count_depth: layer_busy_until is a defaultdict(int); here a function on
\* all wires that is 0 where the dict holds no key
Wires == 0..(MaxQubits - 1)
LargerMutSecond(a, b) == b
Larger(a, b) == IF a > b THEN a ELSE b
LargestMutWireZero(f) == f[0]
Largest(f) == CHOOSE x \in {f[w] : w \in DOMAIN f} : \A w \in DOMAIN f : f[w] <= x

RECURSIVE DepthLoop(_, _, _, _, _)
DepthLoop(gs, i, num_qubits, layer_busy_until, max_depth_achieved) ==
  IF i > Len(gs) THEN max_depth_achieved
  ELSE LET g == gs[i] IN
    IF g.op = "BARRIER" /\ g.target = None
    THEN LET barrier_ends_at_layer == Largest(layer_busy_until) + 1
         IN DepthLoop(gs, i + 1, num_qubits,
                      [w \in Wires |-> IF w < num_qubits THEN barrier_ends_at_layer
                                       ELSE layer_busy_until[w]],
                      Larger(max_depth_achieved, barrier_ends_at_layer))
    ELSE IF g.target = None
    THEN DepthLoop(gs, i + 1, num_qubits, layer_busy_until, max_depth_achieved)
    ELSE IF g.control = None
    THEN LET gate_finishes_at_layer == layer_busy_until[g.target] + 1
         IN DepthLoop(gs, i + 1, num_qubits,
                      [layer_busy_until EXCEPT ![g.target] = gate_finishes_at_layer],
                      Larger(max_depth_achieved, gate_finishes_at_layer))
    ELSE LET gate_finishes_at_layer ==
               Larger(layer_busy_until[g.target], layer_busy_until[g.control]) + 1
         IN DepthLoop(gs, i + 1, num_qubits,
                      [layer_busy_until EXCEPT ![g.target] = gate_finishes_at_layer,
                                               ![g.control] = gate_finishes_at_layer],
                      Larger(max_depth_achieved, gate_finishes_at_layer))

count_depth(gs, num_qubits) == DepthLoop(gs, 1, num_qubits, [w \in Wires |-> 0], 0)

\* the qubit count optimize leaves in ir.qubits (lines 60-79)
OnlyGlobalBarriers(gs) == \A k \in 1..Len(gs) : gs[k].op = "BARRIER" /\ gs[k].target = None

QubitsAfter(original_qubit_count, gs, new_qubit_count_after_remap) ==
  IF new_qubit_count_after_remap > 0 THEN new_qubit_count_after_remap
  ELSE IF Len(gs) = 0
       THEN (IF original_qubit_count > 0 THEN original_qubit_count ELSE 0)
       ELSE IF OnlyGlobalBarriers(gs) /\ original_qubit_count > 0
            THEN original_qubit_count
            ELSE new_qubit_count_after_remap

OptRaised(e) == [err |-> e, gates |-> <<>>, qubits |-> 0, depth |-> 0]

\* optimize: the four passes in order, the qubit count, the depth; an
\* exception of a pass leaves optimize
optimize(original_qubit_count, gs) ==
  LET fused == fuse_rotations(cancel_inverses(gs)) IN
  IF fused.err # "none" THEN OptRaised(fused.err)
  ELSE LET commuted == commute_rotations(fused.gates) IN
    IF commuted.err # "none" THEN OptRaised(commuted.err)
    ELSE LET remapped == qubit_remap(commuted.gates) IN
      IF remapped.err # "none" THEN OptRaised(remapped.err)
      ELSE LET q == QubitsAfter(original_qubit_count, remapped.gates, remapped.count)
           IN [err |-> "none", gates |-> remapped.gates, qubits |-> q,
               depth |-> count_depth(remapped.gates, q)]

\* the gates of a structurally valid IR of q qubits (Gate's validators and
\* CircuitIR.check_qubit_indices_in_range): 0 <= target < q, a control is
\* in range and differs from the target; a params value stands for the
\* GateParams object holding that angle
IrGates(q) ==
  {MkGate("X", t, None, None) : t \in 0..(q - 1)}
    \cup {MkGate("RZ", t, None, 1) : t \in 0..(q - 1)}
    \cup {MkGate("H", 0, None, None), MkGate("RZ", 0, None, 2), MkGate("RX", 0, None, 1)}
    \cup {g \in {MkGate("CX", t, c, None) : t \in 0..(q - 1), c \in 0..(q - 1)} :
            g.control # g.target}
    \cup (IF q >= 2 THEN {MkGate("CZ", 1, 0, None)} ELSE {})

PassInit ==
  /\ SchedInit
  /\ WaitInit
  /\ DbInit
  /\ DispatchIdle
  /\ GateIdle
  /\ LoopIdle
  /\ qubits \in 1..MaxQubits
  /\ gates \in SeqsUpTo(IrGates(qubits), MaxIrGates)
  /\ out = <<>>
  /\ opc = "none"
  /\ oerr = "none"
  /\ oqubits = 0
  /\ odepth = 0

FuseRotations ==
  /\ opc = "none"
  /\ LET r == fuse_rotations(gates)
     IN out' = r.gates /\ oerr' = r.err
  /\ opc' = "fuse"
  /\ UNCHANGED <<gates, qubits, oqubits, odepth, schedVars, waitVars, dbVars, dispVars, gateVars, loopVars, callVars>>

CommuteRotations ==
  /\ opc = "none"
  /\ LET r == commute_rotations(gates)
     IN out' = r.gates /\ oerr' = r.err
  /\ opc' = "commute"
  /\ UNCHANGED <<gates, qubits, oqubits, odepth, schedVars, waitVars, dbVars, dispVars, gateVars, loopVars, callVars>>

QubitRemap ==
  /\ opc = "none"
  /\ LET r == qubit_remap(gates)
     IN out' = r.gates /\ oqubits' = r.count /\ oerr' = r.err
  /\ opc' = "remap"
  /\ UNCHANGED <<gates, qubits, odepth, schedVars, waitVars, dbVars, dispVars, gateVars, loopVars, callVars>>

CountDepth ==
  /\ opc = "none"
  /\ odepth' = count_depth(gates, qubits)
  /\ opc' = "depth"
  /\ UNCHANGED <<gates, out, qubits, oerr, oqubits, schedVars, waitVars, dbVars, dispVars, gateVars, loopVars, callVars>>

Optimize ==
  /\ opc = "none"
  /\ LET r == optimize(qubits, gates)
     IN out' = r.gates /\ oerr' = r.err /\ oqubits' = r.qubits /\ odepth' = r.depth
  /\ opc' = "optimize"
  /\ UNCHANGED <<gates, qubits, schedVars, waitVars, dbVars, dispVars, gateVars, loopVars, callVars>>

PassNext ==
  \/ FuseRotations
  \/ CommuteRotations
  \/ QubitRemap
  \/ CountDepth
  \/ Optimize

PassSpec == PassInit /\ [][PassNext]_vars

\* ========================================================= Gate construction
GateArgs ==
  {MkGate(o, t, c, p) : o \in OpInputs, t \in {None, 0, 1}, c \in {None, 0, 1},
                        p \in {None, 1, BadParams}}

GateInit ==
  /\ SchedInit
  /\ WaitInit
  /\ OptIdle
  /\ DbInit
  /\ DispatchIdle
  /\ LoopIdle
  /\ gargs \in GateArgs
  /\ gbuilt = NoGate
  /\ gerr = "pending"

GateCall ==
  /\ gerr = "pending"
  /\ LET r == GateNew(gargs.op, gargs.target, gargs.control, gargs.params)
     IN gbuilt' = r.gate /\ gerr' = r.err
  /\ UNCHANGED <<gargs, schedVars, waitVars, optVars, dbVars, dispVars, loopVars, callVars>>

GateNext == GateCall

GateSpec == GateInit /\ [][GateNext]_vars

\* ------------------------------------- _commute_rotations, step by step
\* the while loop of _commute_rotations one iteration at a time, on lists of
\* Z rotations, CX and CZ in both directions, and a gate that never moves
LoopGates ==
  {MkGate("RZ", 0, None, 1), MkGate("RZ", 1, None, 1), MkGate("X", 0, None, None),
   MkGate("CX", 1, 0, None), MkGate("CX", 0, 1, None), MkGate("CZ", 1, 0, None)}

LoopInit ==
  /\ SchedInit
  /\ WaitInit
  /\ DbInit
  /\ DispatchIdle
  /\ GateIdle
  /\ LoopIdle
  /\ qubits = 2
  /\ gates \in SeqsUpTo(LoopGates, MaxLoopGates)
  /\ out = <<>>
  /\ opc = "none"
  /\ oerr = "none"
  /\ oqubits = 0
  /\ odepth = 0

\* _commute_rotations(gates) is entered: i = 0
CommuteCall ==
  /\ lpc = "idle"
  /\ opc = "none"
  /\ lgates' = gates
  /\ lperm' = [k \in 1..Len(gates) |-> k]
  /\ li' = 0
  /\ lpc' = "scan"
  /\ UNCHANGED <<schedVars, waitVars, optVars, dbVars, dispVars, gateVars, callVars>>

\* one iteration of while i < len(gates) - 1
CommuteIter ==
  /\ lpc = "scan"
  /\ li < Len(lgates) - 1
  /\ IF CanCommute(lgates[li + 1], lgates[li + 2])
     THEN /\ lgates' = Swapped(lgates, li)
          /\ lperm' = Swapped(lperm, li)
          /\ li' = IF li - 2 > 0 THEN li - 2 ELSE 0
     ELSE /\ li' = li + 1
          /\ UNCHANGED <<lgates, lperm>>
  /\ UNCHANGED <<lpc, schedVars, waitVars, optVars, dbVars, dispVars, gateVars, callVars>>

\* the loop test fails: return _fuse_rotations(gates)
CommuteExit ==
  /\ lpc = "scan"
  /\ ~(li < Len(lgates) - 1)
  /\ lpc' = "done"
  /\ LET r == fuse_rotations(lgates)
     IN out' = r.gates /\ oerr' = r.err
  /\ opc' = "commute"
  /\ UNCHANGED <<lgates, li, lperm, gates, qubits, oqubits, odepth,
                 schedVars, waitVars, dbVars, dispVars, gateVars, callVars>>

LoopNext ==
  \/ CommuteCall
  \/ CommuteIter
  \/ CommuteExit

\* a call that has been made runs on: nothing suspends the loop
LoopSpec == LoopInit /\ [][LoopNext]_vars /\ WF_vars(LoopNext)

\* ------------------------------------------------ depth with global barriers
\* gate lists as _count_depth takes them: gates on the wires 0..q-1 and the
\* global barrier, a BARRIER gate without a target
GlobalBarrier == MkGate("BARRIER", None, None, None)

BarrierGates(q) ==
  {MkGate("X", t, None, None) : t \in 0..(q - 1)}
    \cup {g \in {MkGate("CX", t, c, None) : t \in 0..(q - 1), c \in 0..(q - 1)} :
            g.control # g.target}
    \cup {GlobalBarrier}

DepthInit ==
  /\ SchedInit
  /\ WaitInit
  /\ DbInit
  /\ DispatchIdle
  /\ GateIdle
  /\ LoopIdle
  /\ qubits \in 1..MaxQubits
  /\ gates \in SeqsUpTo(BarrierGates(qubits), MaxBarrierGates)
  /\ out = <<>>
  /\ opc = "none"
  /\ oerr = "none"
  /\ oqubits = 0
  /\ odepth = 0

\* the depth count, and the two callers of Gate(...) on the same lists:
\* _qubit_remap and optimize
DepthNext ==
  \/ CountDepth
  \/ QubitRemap
  \/ Optimize

DepthSpec == DepthInit /\ [][DepthNext]_vars

\* ================================================================ properties
DequeueStep == pc = "get" /\ pc' = "run"
RequeueStep == pc = "sleep" /\ pc' = "get"
HandlerEntered == pc \in {"run", "persist"} /\ pc' \in {"sleep", "final"}
Held == pc \in {"run", "persist", "store", "sleep", "final", "store_err", "dead"}

\* C1: whenever the worker dequeues, the record it takes is one of the queued
\* records and no queued record has a smaller priority value; the others stay
\* queued.
C1_SmallestPriorityServed ==
  [][DequeueStep =>
       /\ item' \in Queued
       /\ \A r \in Queued : item'.priority <= r.priority
       /\ Len(pq') = Len(pq) - 1
       /\ \A r \in Queued : r.job_id # item'.job_id => r \in {pq'[i] : i \in 1..Len(pq')}]_vars

\* three records were queued at the first dequeue, the one taken is not the
\* first submitted, and a record of strictly larger priority value waits
C1_Witness ==
  /\ pc = "run"
  /\ firstGetAt = 3
  /\ started = <<item.job_id>>
  /\ item.job_id # 1
  /\ Len(pq) = 2
  /\ \E r \in Queued : r.priority > item.priority

\* C2: a job whose device fails on its first k executions and succeeds
\* afterwards ends with the success value of execution k+1 when
\* k <= max_retries, and with the error of execution max_retries+1 otherwise.
\* Stated on the step that stores the outcome, k being the number of device
\* failures the job has had.
C2_RetryOutcome ==
  [][(pc \in {"store", "store_err"} /\ pc' = "get") =>
       LET j == item.job_id
           k == devFails[j]
       IN IF k <= item.max_retries
          THEN results'[j] = OkValue(k + 1)
          ELSE results'[j] = ErrValue("device", item.max_retries + 1)]_vars

\* C3: attempt starts at 0, is the number of the job's executions that ended
\* in the worker's exception handler, the record is put back exactly when the
\* incremented attempt is <= max_retries, and attempt <= max_retries + 1 and
\* executions <= max_retries + 1 throughout.
C3_AttemptState ==
  /\ \A r \in Queued :
       /\ r.attempt = runs[r.job_id]
       /\ r.attempt <= r.max_retries
  /\ Held =>
       /\ item.attempt <= item.max_retries + 1
       /\ runs[item.job_id] <= item.max_retries + 1
       /\ pc \in {"run", "persist", "store"} => item.attempt = runs[item.job_id] - 1
       /\ pc \in {"sleep", "final", "store_err", "dead"} => item.attempt = runs[item.job_id]
       /\ pc = "sleep" => item.attempt <= item.max_retries
       /\ pc \in {"final", "store_err", "dead"} => item.attempt > item.max_retries
       /\ item.job_id \notin QueuedIds

C3_AttemptCounter ==
  [][/\ C3_AttemptState
     /\ C3_AttemptState'
     /\ issued' # issued =>
          \E r \in {pq'[i] : i \in 1..Len(pq')} : r.job_id = issued' /\ r.attempt = 0
     /\ HandlerEntered =>
          /\ item'.attempt = item.attempt + 1
          /\ pc' = "sleep" <=> item'.attempt <= item'.max_retries
     /\ RequeueStep => item \in {pq'[i] : i \in 1..Len(pq')}
     /\ (pc \in {"final", "store_err"} /\ pc' # pc) =>
          item.job_id \notin {pq'[i].job_id : i \in 1..Len(pq')}]_vars

\* a job with a retry budget has used it up: it ran max_retries + 1 times
C3_Witness ==
  /\ pc = "store_err"
  /\ item.max_retries >= 1
  /\ item.attempt = item.max_retries + 1
  /\ runs[item.job_id] = item.max_retries + 1

\* C4: a call of wait that returned holds the outcome the worker stored for
\* its job_id, that outcome existed, it is gone from the result map, and no
\* two calls returned for the same job_id.
C4_DeliveredOnce ==
  /\ \A w \in Waiters :
       wpc[w] = "returned" =>
         /\ stored[wjob[w]] # NoResult
         /\ wgot[w] = stored[wjob[w]]
         /\ results[wjob[w]] = NoResult
  /\ \A w \in Waiters :
       wpc[w] \in {"pop", "keyerror"} => stored[wjob[w]] # NoResult
  /\ \A w1 \in Waiters, w2 \in Waiters :
       (w1 # w2 /\ wpc[w1] = "returned" /\ wpc[w2] = "returned") => wjob[w1] # wjob[w2]

\* two concurrent calls for one job: one returned the outcome, the other did not
C4_Witness ==
  \E w1 \in Waiters, w2 \in Waiters :
    /\ w1 # w2
    /\ wjob[w1] = wjob[w2]
    /\ wpc[w1] = "returned"
    /\ wpc[w2] \in {"poll", "keyerror"}
    /\ wgot[w1].kind = "err"

\* C5: with a fair worker, device steps that end and persistence and logging
\* that do not raise, every enqueued job reaches a terminal state with its
\* outcome stored, and a caller blocked in wait on it returns.
Pending(j) == orig[j] # NoItem
Terminal(j) == orig[j] = NoItem /\ stored[j] # NoResult
Blocked(j) == wpc[LiveWaiter] \in {"poll", "pop"} /\ wjob[LiveWaiter] = j
Returned(j) == wpc[LiveWaiter] = "returned" /\ wjob[LiveWaiter] = j /\ wgot[LiveWaiter] = stored[j]

C5_EveryJobTerminates ==
  \A j \in LiveIds : (Pending(j) ~> Terminal(j)) /\ (Blocked(j) ~> Returned(j))

\* C5 (amended): the same, for a job after whose submission only finitely
\* many jobs are submitted with a (priority, enqueue_time) key not greater
\* than its own.
Overtakes(j) ==
  /\ Pending(j)
  /\ \E i \in LiveIds : i # j /\ orig[i] = NoItem /\ orig'[i] # NoItem /\ ~Less(orig[j], orig'[i])

C5_TerminatesUnlessOvertaken ==
  \A j \in LiveIds :
    (<>[][~Overtakes(j)]_vars) => ((Pending(j) ~> Terminal(j)) /\ (Blocked(j) ~> Returned(j)))

\* a job failed once, was retried to its end while another job was queued
\* behind it, and the caller blocked on it returned with its outcome
C5_Witness ==
  \E j \in LiveIds :
    /\ Returned(j)
    /\ runs[j] = 2
    /\ devFails[j] >= 1
    /\ Len(pq) > 0

\* C6: the worker loop never terminates, whatever a device step or a
\* persistence or logging call raises.
C6_WorkerNeverTerminates == pc # "dead"

\* C7 as stated: the record put back for a retry has its original priority
\* and an enqueue_time read from the clock at requeue time.
C7_FreshSequenceOnRequeue ==
  [][RequeueStep =>
       \E r \in {pq'[i] : i \in 1..Len(pq')} :
         /\ r.job_id = item.job_id
         /\ r.priority = orig[item.job_id].priority
         /\ r.enqueue_time = clock]_vars

\* C7 amended: the record put back for a retry has its original priority and
\* its original enqueue_time, only attempt has changed; so when the worker
\* serves a record, no retried record of equal priority and strictly smaller
\* enqueue_time is left waiting.
C7_RequeueKeepsKey ==
  [][/\ RequeueStep =>
          \E r \in {pq'[i] : i \in 1..Len(pq')} :
            /\ r.job_id = item.job_id
            /\ r.priority = orig[item.job_id].priority
            /\ r.enqueue_time = orig[item.job_id].enqueue_time
            /\ r.max_retries = orig[item.job_id].max_retries
            /\ r.attempt = orig[item.job_id].attempt + runs[item.job_id]
     /\ DequeueStep =>
          \A r \in {pq'[i] : i \in 1..Len(pq')} :
            (r.attempt > 0 /\ r.priority = item'.priority) =>
              r.enqueue_time >= item'.enqueue_time]_vars

\* a retried record waits with its old enqueue_time while the clock has moved
\* on and an equal-priority record submitted later, with a later reading, waits
C7_Witness ==
  /\ pc = "get"
  /\ \E r \in Queued, r2 \in Queued :
       /\ r.attempt >= 1
       /\ r.enqueue_time < clock
       /\ r2.attempt = 0
       /\ r2.priority = r.priority
       /\ r2.job_id > r.job_id
       /\ r2.enqueue_time > r.enqueue_time

\* C8: among queued records of equal priority the one whose enqueue call came
\* first is served first (job ids are handed out in the order of the enqueue
\* calls).
C8_FifoAmongEqualPriority ==
  [][DequeueStep =>
       \A r \in {pq'[i] : i \in 1..Len(pq')} :
         (r.priority = item'.priority /\ r.attempt = 0 /\ item'.attempt = 0) =>
           item'.job_id < r.job_id]_vars

\* C9 as stated: with submissions high, low, high the executions start in the
\* order 1, 3, 2 in every interleaving with the running worker.
IsPrefix(s, t) == Len(s) <= Len(t) /\ SubSeq(t, 1, Len(s)) = s
C9_OrderInEveryInterleaving == IsPrefix(started, <<1, 3, 2>>)

\* C9 amended: when the three enqueue calls have returned before the worker's
\* first get returns, the low job starts last, and the first high job starts
\* first when its enqueue_time is not greater than that of the second high job.
C9_OrderWhenAllQueued ==
  firstGetAt = Len(ScenarioPriorities) =>
    /\ (\E i \in 1..Len(started) : started[i] = 2) =>
         (Len(started) = 3 /\ started[3] = 2)
    /\ (/\ Len(started) = 1
        /\ orig[1] # NoItem
        /\ orig[3] # NoItem
        /\ orig[1].enqueue_time <= orig[3].enqueue_time) => started = <<1>>

\* all three were queued at the first get, the first job was retried, and the
\* executions started in the order 1, 3, 2
C9_Witness ==
  /\ firstGetAt = Len(ScenarioPriorities)
  /\ started = <<1, 3, 2>>
  /\ runs[1] >= 2

\* C10: _cancel_inverses removes, innermost first, every adjacent pair of
\* parameter-less gates on the same target and control whose ops are X/X,
\* Y/Y, Z/Z, H/H, S/SDG or T/TDG in either order; what is left holds no such
\* adjacent pair and is the other gates in their original order.
InversePairs ==
  {<<"X", "X">>, <<"Y", "Y">>, <<"Z", "Z">>, <<"H", "H">>,
   <<"S", "SDG">>, <<"SDG", "S">>, <<"T", "TDG">>, <<"TDG", "T">>}

CancelablePair(a, b) ==
  /\ <<a.op, b.op>> \in InversePairs
  /\ a.target = b.target
  /\ a.control = b.control
  /\ a.params = None
  /\ b.params = None

HasCancelablePair(gs) == \E i \in 1..(Len(gs) - 1) : CancelablePair(gs[i], gs[i + 1])

\* the list with its leftmost adjacent cancelable pair removed, again and again
RECURSIVE RemovePairs(_)
RemovePairs(gs) ==
  IF HasCancelablePair(gs)
  THEN LET i == CHOOSE k \in 1..(Len(gs) - 1) :
                  /\ CancelablePair(gs[k], gs[k + 1])
                  /\ \A m \in 1..(k - 1) : ~CancelablePair(gs[m], gs[m + 1])
       IN RemovePairs(SubSeq(gs, 1, i - 1) \o SubSeq(gs, i + 2, Len(gs)))
  ELSE gs

RECURSIVE IsSubsequence(_, _)
IsSubsequence(a, b) ==
  IF Len(a) = 0 THEN TRUE
  ELSE IF Len(b) = 0 THEN FALSE
  ELSE IF a[1] = b[1] THEN IsSubsequence(Tail(a), Tail(b))
  ELSE IsSubsequence(a, Tail(b))

C10_CancelInverses ==
  opc = "cancel" =>
    /\ ~HasCancelablePair(out)
    /\ out = RemovePairs(gates)
    /\ IsSubsequence(out, gates)
    /\ (Len(gates) - Len(out)) % 2 = 0
    /\ HasCancelablePair(gates) => Len(out) <= Len(gates) - 2

\* X H H X on one wire: the outer pair becomes adjacent once the inner pair
\* is gone, and nothing is left
C10_Witness ==
  /\ opc = "cancel"
  /\ gates = <<MkGate("X", 0, None, None), MkGate("H", 0, None, None),
               MkGate("H", 0, None, None), MkGate("X", 0, None, None)>>
  /\ out = <<>>

\* C11: _fuse_rotations replaces two adjacent rotations of the same op in
\* {RX, RY, RZ}, target and control, both with params, by one rotation at the
\* place of the first with the angle (theta1 + theta2) mod 2*pi, or by no gate
\* when that is 0; a run of k is fused into at most one gate; no other gate
\* is changed.  Angles are integers modulo AngleN.
AngleN == 4

FusablePair(a, b) ==
  /\ a.op \in {"RX", "RY", "RZ"}
  /\ a.op = b.op
  /\ a.target = b.target
  /\ a.control = b.control
  /\ a.params # None
  /\ b.params # None

RECURSIVE FusedAsStated(_, _, _)
FusedAsStated(gs, i, o) ==
  IF i > Len(gs) THEN o
  ELSE IF Len(o) > 0 /\ FusablePair(o[Len(o)], gs[i])
       THEN LET theta == (o[Len(o)].params + gs[i].params) % AngleN
            IN IF theta = 0
               THEN FusedAsStated(gs, i + 1, SubSeq(o, 1, Len(o) - 1))
               ELSE FusedAsStated(gs, i + 1, [o EXCEPT ![Len(o)].params = theta])
       ELSE FusedAsStated(gs, i + 1, Append(o, gs[i]))

C11_FuseRotations ==
  opc = "fuse" => (oerr = "none" /\ out = FusedAsStated(gates, 1, <<>>))

\* C12: _commute_rotations is idempotent: applied to its own output it
\* returns that same gate list.
C12_CommuteIdempotent ==
  opc = "commute" => (oerr = "none" /\ commute_rotations(out) = PassOk(out))

\* C13: _qubit_remap renames the referenced wires by a bijection onto
\* 0..N-1, N the number of distinct referenced wires, in first-use order
\* (target before control within a gate); it returns N and leaves op, params
\* and position of every gate unchanged.
Referenced(gs) ==
  ({gs[k].target : k \in 1..Len(gs)} \cup {gs[k].control : k \in 1..Len(gs)}) \ {None}

\* the place of the first use of wire w: 2k-1 as target, 2k as control of gate k
FirstUse(gs, w) ==
  LET uses == {2 * k - 1 : k \in {n \in 1..Len(gs) : gs[n].target = w}}
                \cup {2 * k : k \in {n \in 1..Len(gs) : gs[n].control = w}}
  IN CHOOSE p \in uses : \A r \in uses : p <= r

Rank(gs, w) ==
  IF w = None THEN None
  ELSE Cardinality({v \in Referenced(gs) : FirstUse(gs, v) < FirstUse(gs, w)})

C13_QubitRemap ==
  opc = "remap" =>
    /\ oqubits = Cardinality(Referenced(gates))
    /\ {Rank(gates, w) : w \in Referenced(gates)} = 0..(oqubits - 1)
    /\ Len(out) = Len(gates)
    /\ \A k \in 1..Len(gates) :
         /\ out[k].op = gates[k].op
         /\ out[k].params = gates[k].params
         /\ out[k].target = Rank(gates, gates[k].target)
         /\ out[k].control = Rank(gates, gates[k].control)

\* a gate whose target and control are both new, on wires that change name
C13_Witness ==
  /\ opc = "remap"
  /\ gates = <<MkGate("CX", 2, 0, None), MkGate("X", 1, None, None), MkGate("RZ", 2, None, 1)>>
  /\ out = <<MkGate("CX", 0, 1, None), MkGate("X", 2, None, None), MkGate("RZ", 0, None, 1)>>
  /\ oqubits = 3

\* C14: _count_depth is ASAP layering: N single-qubit gates on one wire give
\* N, N single-qubit gates on N distinct wires give 1, a two-qubit gate
\* finishes at 1 + the larger counter of its two wires, and the depth is the
\* largest finishing layer.
SharesWire(a, b) ==
  ({a.target, a.control} \cap {b.target, b.control}) \ {None} # {}

\* the layer gate k finishes at: one more than the latest earlier gate on
\* one of its wires
RECURSIVE Finish(_, _)
Finish(gs, k) ==
  LET before == {Finish(gs, j) : j \in {n \in 1..(k - 1) : SharesWire(gs[n], gs[k])}}
  IN 1 + (IF before = {} THEN 0 ELSE CHOOSE x \in before : \A y \in before : y <= x)

AsapDepth(gs) ==
  IF Len(gs) = 0 THEN 0
  ELSE LET ends == {Finish(gs, k) : k \in 1..Len(gs)}
       IN CHOOSE x \in ends : \A y \in ends : y <= x

SingleQubitOnly(gs) == \A k \in 1..Len(gs) : gs[k].control = None

C14_CountDepth ==
  opc = "depth" =>
    /\ odepth = AsapDepth(gates)
    /\ (SingleQubitOnly(gates) /\ Cardinality(Referenced(gates)) = 1) => odepth = Len(gates)
    /\ (/\ SingleQubitOnly(gates)
        /\ Len(gates) >= 1
        /\ Cardinality(Referenced(gates)) = Len(gates)) => odepth = 1

\* two gates on wire 0, then a two-qubit gate on wires 0 and 1: it starts
\* after the busier wire and ends the circuit at layer 3
C14_Witness ==
  /\ opc = "depth"
  /\ gates = <<MkGate("X", 0, None, None), MkGate("H", 0, None, None), MkGate("CX", 1, 0, None)>>
  /\ odepth = 3

\* C15: an IR with no adjacent cancelable pair, no adjacent fusable
\* rotations, no RZ that commuting brings next to a rotation it fuses with,
\* and referenced wires exactly 0..N-1, comes back from optimize with the
\* same gate sequence and the ASAP depth of the input.
HasFusablePair(gs) == \E i \in 1..(Len(gs) - 1) : FusablePair(gs[i], gs[i + 1])

WiresCompact(gs) == Referenced(gs) = 0..(Cardinality(Referenced(gs)) - 1)

AlreadyReduced(gs) ==
  /\ ~HasCancelablePair(gs)
  /\ ~HasFusablePair(gs)
  /\ ~HasFusablePair(CommuteLoop(gs, 0))
  /\ WiresCompact(gs)

C15_RoundTrip ==
  (opc = "optimize" /\ AlreadyReduced(gates)) =>
    /\ oerr = "none"
    /\ out = gates
    /\ odepth = AsapDepth(gates)

\* C16: after optimize the qubit count is the original count when the
\* rewritten gate list holds only global barriers, 0 when it is empty, and
\* the number of distinct wires it references otherwise.
C16_QubitCountRule ==
  (opc = "optimize" /\ oerr = "none") =>
    IF Len(out) = 0 THEN oqubits = 0
    ELSE IF OnlyGlobalBarriers(out) THEN oqubits = qubits
    ELSE oqubits = Cardinality(Referenced(out))

\* C17: every wire index of a gate of optimize's output is >= 0 and below
\* the output qubit count, and a control differs from its target.
C17_WiresInRange ==
  (opc = "optimize" /\ oerr = "none") =>
    \A k \in 1..Len(out) :
      /\ 0 <= out[k].target
      /\ out[k].target < oqubits
      /\ out[k].control # None =>
           /\ 0 <= out[k].control
           /\ out[k].control < oqubits
           /\ out[k].control # out[k].target

\* an IR of three qubits that uses wires 2 and 1 only: the output has two
\* qubits and its controlled gate sits on wires 0 and 1
C17_Witness ==
  /\ opc = "optimize"
  /\ oerr = "none"
  /\ qubits = 3
  /\ gates = <<MkGate("X", 2, None, None), MkGate("CX", 2, 1, None)>>
  /\ out = <<MkGate("X", 0, None, None), MkGate("CX", 0, 1, None)>>
  /\ oqubits = 2

\* C18: no call of wait that saw the outcome present ends in an error raised
\* by the removal step, also when two callers wait for one job_id.
C18_NoRemovalError == \A w \in Waiters : wpc[w] # "keyerror"

\* C19: a call of wait started after the job's outcome was retrieved and
\* removed ends with an error instead of blocking.  (With one caller, a call
\* that polls for a job whose outcome was stored and is gone started after
\* the removal.)
Consumed(j) == stored[j] # NoResult /\ results[j] = NoResult

C19_SecondWaitFailsFast ==
  \A j \in WaitIds :
    (wpc[LiveWaiter] = "poll" /\ wjob[LiveWaiter] = j /\ Consumed(j))
      ~> (wpc[LiveWaiter] = "keyerror")

\* C20: when the device steps of an execution returned, a raise of
\* db.update_job or logger.log_complete does not fail the job: the attempt
\* counter stays, the job is not executed again, and the outcome stored is
\* the run result.
C20_PersistenceNeverFailsJob ==
  [][/\ (pc = "persist" /\ pc' # pc) =>
          /\ pc' = "store"
          /\ item'.attempt = item.attempt
          /\ job_run_result' = job_run_result
     /\ (pc = "store" /\ pc' # pc) =>
          /\ results'[item.job_id] = OkValue(runs[item.job_id])
          /\ item.job_id \notin {pq'[i].job_id : i \in 1..Len(pq')}]_vars


\* C21: an exception raised by the monitor step, compile and run having
\* returned a run result, does not fail the job: the step that leaves the
\* device steps with a run result in hand goes on to persist it as
\* completed, with the attempt counter unchanged and nothing scheduled for
\* a retry.
C21_MonitorNeverFailsJob ==
  [][(pc = "run" /\ pc' # pc /\ job_run_result' # NoResult) =>
        /\ pc' = "persist"
        /\ raised' = "none"
        /\ item'.attempt = item.attempt]_vars


\* C22: the database update carrying a job's terminal status is issued
\* before the outcome is observable: whenever the result map holds an
\* outcome, and whenever wait has returned one, db.update_job has already
\* returned for that job with status "completed" for a run result and
\* "failed" for an exception; the worker reaches either store only after
\* the update of its path.
StatusOf(outcome) == IF outcome.kind = "ok" THEN "completed" ELSE "failed"

C22_UpdateBeforeOutcome ==
  /\ \A j \in JobIds : results[j] # NoResult => updates[j] = StatusOf(results[j])
  /\ \A w \in Waiters : wpc[w] = "returned" => updates[wjob[w]] = StatusOf(wgot[w])
  /\ pc = "store" => updates[item.job_id] = "completed"
  /\ pc = "store_err" => updates[item.job_id] = "failed"

C22_Witness ==
  \E w1, w2 \in Waiters :
    /\ wpc[w1] = "returned" /\ wgot[w1].kind = "ok"
    /\ wpc[w2] = "returned" /\ wgot[w2].kind = "err" /\ wgot[w2].src = "persist"


\* C23: once dispatch has returned a job's id and the job is terminal, the
\* row of the job holds the terminal status ("completed" for a run result,
\* "failed" for an exception) and not "queued", however the statements of
\* dispatch interleave with the worker.
C23_RowHoldsTerminalStatus ==
  \A j \in dispatched : stored[j] # NoResult => row[j] = StatusOf(stored[j])


\* C26: a dispatch call that raises in parsing/validation, optimization,
\* code emission or device lookup has not called enqueue and has inserted
\* no row: no statement of dispatch up to the device lookup changes the
\* queue, the result map, the issued job ids or the jobs table, and the
\* call that raised there holds no job id.
StructuralStages == {"parse", "optimize", "emit", "select"}

C26_AbortBeforeEnqueue ==
  [][/\ (dpc \in StructuralStages /\ dpc' # dpc) =>
          /\ pq' = pq
          /\ results' = results
          /\ issued' = issued
          /\ row' = row
     /\ (dpc' = "raised" /\ derr' \in StructuralStages) => djob' = 0]_vars

C26_Witness ==
  /\ dpc = "raised"
  /\ derr = "select"
  /\ djob = 0
  /\ Len(pq) = 1
  /\ issued = 1
  /\ row[1] = "queued"


\* C24: _commute_rotations moves an RZ in front of a CX/CZ only when the
\* move places it next to a rotation it can fuse with; when no fusion can
\* result, the order of the gates is left as in the input. A gate list in
\* which no two gates can fuse offers no such move, so the pass returns it
\* unchanged.
NoFusionPartner(gs) ==
  \A i, k \in 1..Len(gs) : i < k => ~FusablePair(gs[i], gs[k])

C24_CommuteOnlyToFuse ==
  (opc = "commute" /\ NoFusionPartner(gates)) => (oerr = "none" /\ out = gates)


\* C25: on a structurally valid IR optimize raises nothing: every pass run
\* on a valid gate list returns, and optimize returns the IR with its gate
\* list, qubit count and depth.
C25_OptimizeNeverRaises ==
  opc \in {"fuse", "commute", "remap", "depth", "optimize"} => oerr = "none"


\* C27: every live job record (submitted, not terminal) is in exactly one
\* place: once in the queue, or in the hands of the worker from its dequeue
\* to its requeue or until it is terminal, never both; a record whose
\* attempt counter changes in a step is in the worker's hands before and
\* after the step, and a record that stays queued stays as it is.
TimesQueued(j) == Cardinality({i \in 1..Len(pq) : pq[i].job_id = j})
InHand(j) == pc \in {"run", "persist", "store", "sleep", "final", "store_err"} /\ item.job_id = j
\* attempt exceeded max_retries and the worker is gone: the record is terminal
Abandoned(j) == pc = "dead" /\ item.job_id = j
LiveRecord(j) == orig[j] # NoItem /\ ~Abandoned(j)
RecordOf(j) == IF InHand(j) THEN item ELSE CHOOSE r \in Queued : r.job_id = j

C27_OnePlace ==
  /\ \A j \in JobIds : LiveRecord(j) =>
       \/ TimesQueued(j) = 1 /\ ~InHand(j)
       \/ TimesQueued(j) = 0 /\ InHand(j)
  /\ \A j \in JobIds : ~LiveRecord(j) => TimesQueued(j) = 0
  /\ pc = "get" => item = NoItem

C27_Ownership ==
  [][/\ C27_OnePlace
     /\ C27_OnePlace'
     /\ \A j \in JobIds : (LiveRecord(j) /\ LiveRecord(j)') =>
          /\ RecordOf(j)'.attempt # RecordOf(j).attempt => (InHand(j) /\ InHand(j)')
          /\ (TimesQueued(j) = 1 /\ TimesQueued(j)' = 1) => RecordOf(j)' = RecordOf(j)]_vars

C27_Witness ==
  /\ pc = "sleep"
  /\ item.attempt = 1
  /\ \E r \in Queued : r.attempt = 1 /\ r.job_id # item.job_id


\* C28: _cancel_inverses is idempotent: applied to the list it returned, it
\* returns that list again.
C28_CancelIdempotent ==
  opc = "cancel" => cancel_inverses(out) = out

\* an inner pair is removed and brings together two gates of one wire that
\* the second application has to leave alone
C28_Witness ==
  /\ opc = "cancel"
  /\ Len(gates) = 4
  /\ Len(out) = 2
  /\ out = <<gates[1], gates[4]>>
  /\ out[1].target = out[2].target
  /\ cancel_inverses(out) = out


\* C29: in _count_depth a global barrier finishes one layer after the
\* latest of all gates and barriers before it, and every gate and barrier
\* after it starts after it; a gate finishes one layer after the latest
\* earlier gate on one of its wires and the latest earlier barrier; the
\* depth is the largest finishing layer, and 0 for the empty list.
IsGlobalBarrier(g) == g.op = "BARRIER" /\ g.target = None
OrderedAfter(a, b) == IsGlobalBarrier(a) \/ IsGlobalBarrier(b) \/ SharesWire(a, b)

RECURSIVE FinishWithBarriers(_, _)
FinishWithBarriers(gs, k) ==
  LET before == {FinishWithBarriers(gs, j) : j \in {n \in 1..(k - 1) : OrderedAfter(gs[n], gs[k])}}
  IN 1 + (IF before = {} THEN 0 ELSE CHOOSE x \in before : \A y \in before : y <= x)

DepthWithBarriers(gs) ==
  IF Len(gs) = 0 THEN 0
  ELSE LET ends == {FinishWithBarriers(gs, k) : k \in 1..Len(gs)}
       IN CHOOSE x \in ends : \A y \in ends : y <= x

C29_GlobalBarrierDepth ==
  opc = "depth" =>
    /\ odepth = DepthWithBarriers(gates)
    /\ Len(gates) = 0 => odepth = 0
    /\ OnlyGlobalBarriers(gates) => odepth = Len(gates)
    /\ \A k \in 1..Len(gates) : IsGlobalBarrier(gates[k]) =>
         odepth >= DepthWithBarriers(SubSeq(gates, 1, k - 1)) + 1 + (IF k < Len(gates) THEN 1 ELSE 0)

\* two gates on wire 0, a barrier, a gate on the idle wire 1: the barrier
\* ends at layer 3 and the last gate at layer 4
C29_Witness ==
  /\ opc = "depth"
  /\ gates = <<MkGate("X", 0, None, None), MkGate("X", 0, None, None),
               GlobalBarrier, MkGate("X", 1, None, None)>>
  /\ odepth = 4


\* C30: an exception raised by any device step (instantiation and compile,
\* run, monitor) is handled in one way: the attempt counter goes up by
\* one, the queue and the result map are left alone, and the record goes
\* to the backoff sleep of 2^(attempt-1) seconds when attempt <= max_retries
\* and to the final failure otherwise, whichever step raised.
DeviceStepRaised == pc = "run" /\ pc' # pc /\ raised' \in DeviceSteps

C30_UniformDeviceFailure ==
  [][DeviceStepRaised =>
       /\ item' = [item EXCEPT !.attempt = item.attempt + 1]
       /\ exc' = ErrValue("device", runs[item.job_id])
       /\ pq' = pq
       /\ results' = results
       /\ IF item.attempt + 1 <= item.max_retries
          THEN pc' = "sleep" /\ backoff_duration' = 2 ^ item.attempt
          ELSE pc' = "final"]_vars

\* the monitor step raised in the first execution of a job that has a retry
\* left, and again in its second
C30_Witness ==
  /\ pc = "final"
  /\ raised = "monitor"
  /\ item.attempt = 2
  /\ item.max_retries = 1
  /\ devFails[item.job_id] = 2


\* C31: enqueue never blocks and always succeeds: whatever the state of the
\* queue and of the worker, a call with any priority and max_retries
\* argument can return; the call adds exactly one record, which has attempt
\* 0, the max_retries the call was given and the priority its priority
\* argument resolves to (a name of any case to its number, an integer or a
\* string that parses as one to that integer, anything else to normal), and
\* carries the time of the call; its
\* job id differs from every id returned before; the records queued before
\* stay queued as they are, and the result map, the worker and the record
\* in its hands are left unchanged.
ExpectedPriority ==
  [high |-> 0, HIGH |-> 0, normal |-> 1, low |-> 2, urgent |-> 1,
   int0 |-> 0, int1 |-> 1, int2 |-> 2] @@ ("2" :> 2)

EnqueueReturned == issued' # issued

\* the ids enqueue has returned so far
ReturnedIds == {j \in JobIds : orig[j] # NoItem \/ stored[j] # NoResult} \cup QueuedIds

C31_EnqueueEffect ==
  EnqueueReturned =>
    /\ issued' \notin ReturnedIds
    /\ Len(pq') = Len(pq) + 1
    /\ \A r \in Queued : r \in {pq'[i] : i \in 1..Len(pq')}
    /\ [priority |-> ExpectedPriority[eargs'.priority], enqueue_time |-> clock,
        job_id |-> issued', max_retries |-> eargs'.max_retries, attempt |-> 0]
         \in {pq'[i] : i \in 1..Len(pq')}
    /\ results' = results
    /\ pc' = pc
    /\ item' = item

\* no state of the queue, the worker or the result map keeps a call from
\* returning (MaxJobs bounds the number of calls of a run, not enqueue)
C31_NeverBlocks ==
  issued < MaxJobs =>
    \A p \in PriorityInputs, m \in 0..MaxRetries : ENABLED EnqueueWith(MaxJobs, p, m)

C31_EnqueueAddsOneRecord == [][C31_EnqueueEffect]_vars /\ []C31_NeverBlocks

\* a call with priority "HIGH" and one retry, made while one record is queued
\* and another is in the worker's hands
C31_Witness ==
  /\ issued = 3
  /\ Len(pq) = 2
  /\ pc = "sleep"
  /\ eargs = EnqueueArgs("HIGH", 1)
  /\ \E r \in Queued : r.job_id = 3 /\ r.attempt = 0 /\ r.priority = 0 /\ r.max_retries = 1


\* C32: after the n-th failed execution of a job, 1 <= n <= max_retries,
\* the worker sleeps 2^(n-1) time units (1, 2, 4) and puts the record back
\* only then: while it sleeps the record is not in the queue, and the step
\* that ends the sleep is the one that queues it.
\* 1 doubled k times
RECURSIVE Doubled(_)
Doubled(k) == IF k = 0 THEN 1 ELSE 2 * Doubled(k - 1)

C32_BackoffState ==
  pc = "sleep" =>
    /\ devFails[item.job_id] \in 1..item.max_retries
    /\ backoff_duration = Doubled(devFails[item.job_id] - 1)
    /\ item.job_id \notin QueuedIds

C32_ExponentialBackoff ==
  [][/\ C32_BackoffState
     /\ C32_BackoffState'
     /\ (pc \in {"run", "persist"} /\ devFails' # devFails /\ item'.attempt <= item'.max_retries)
          => pc' = "sleep"
     /\ (pc = "sleep" /\ pc' # pc) => item \in {pq'[i] : i \in 1..Len(pq')}]_vars

\* the third failure of a job with three retries: a sleep of 4
C32_Witness ==
  /\ pc = "sleep"
  /\ devFails[item.job_id] = 3
  /\ backoff_duration = 4


\* C33: the op tag of a constructed Gate is canonical: the upper-cased name,
\* with each alias (CNOT, TOFFOLI, PHASE, CPHASE, FREDKIN) replaced by its
\* canonical tag (CX, CCX, P, CP, CSWAP); no alias is the tag of a Gate.
Aliases == {"CNOT", "TOFFOLI", "PHASE", "CPHASE", "FREDKIN"}
CanonicalTag(name) ==
  CASE name = "CNOT" -> "CX"
    [] name = "TOFFOLI" -> "CCX"
    [] name = "PHASE" -> "P"
    [] name = "CPHASE" -> "CP"
    [] name = "FREDKIN" -> "CSWAP"
    [] OTHER -> name

C33_CanonicalOp ==
  gerr = "none" =>
    /\ gbuilt.op = CanonicalTag(Upper(gargs.op))
    /\ gbuilt.op \notin Aliases


\* C34: a constructed Gate satisfies the required-field profile of its op
\* tag: a target; for a controlled operation a control that differs from
\* the target; for a parametric operation its angle parameters. A call that
\* lacks a required field is rejected.
ControlledOps == {"CX", "CY", "CZ", "CH", "CRX", "CRY", "CRZ", "CP", "CU1", "CSWAP", "CCX"}
ParametricOps == {"RX", "RY", "RZ", "P", "U1", "U2", "U3", "U", "CRX", "CRY", "CRZ", "CP", "CU1"}

C34_RequiredFields ==
  gerr = "none" =>
    /\ gbuilt.target # None
    /\ gbuilt.op \in ControlledOps => (gbuilt.control # None /\ gbuilt.control # gbuilt.target)
    /\ gbuilt.op \in ParametricOps => gbuilt.params # None


\* C35: the backoff of a job is served by the one worker thread: while the
\* worker sleeps, no execution starts, whatever is queued and at whatever
\* priority; the record in backoff stays out of the queue, and the step
\* that ends the sleep puts it back and returns the worker to the queue.
C35_BackoffBlocksWorker ==
  [][pc = "sleep" =>
       /\ runs' = runs
       /\ started' = started
       /\ pc' = pc => (item' = item /\ item.job_id \notin {pq'[i].job_id : i \in 1..Len(pq')})
       /\ pc' # pc =>
            /\ pc' = "get"
            /\ item \in {pq'[i] : i \in 1..Len(pq')}
            /\ Len(pq') = Len(pq) + 1]_vars

\* the worker sleeps for a low-priority job while a high-priority job that
\* has never run is queued
C35_Witness ==
  /\ pc = "sleep"
  /\ item.priority = 2
  /\ \E r \in Queued : r.priority = 0 /\ runs[r.job_id] = 0


\* C36: _commute_rotations terminates: the scan index goes back only in an
\* iteration that swaps, and then by at most 2; a swap puts an RZ in front
\* of a CX/CZ, which takes one from the number of places where a CX/CZ
\* stands somewhere before an RZ, and the pair just swapped does not swap
\* back; an iteration that does not swap moves the index on by one; so the
\* loop is left.
TwoQubitBeforeRZ(gs) ==
  Cardinality({pr \in (1..Len(gs)) \X (1..Len(gs)) :
                 /\ pr[1] < pr[2]
                 /\ gs[pr[1]].op \in {"CX", "CZ"}
                 /\ gs[pr[2]].op = "RZ"})

SwapIteration == lpc = "scan" /\ lpc' = "scan" /\ lgates' # lgates
ScanIteration == lpc = "scan" /\ lpc' = "scan" /\ li' # li

C36_CommuteTerminates ==
  /\ [][/\ ScanIteration =>
             /\ li' < li => (SwapIteration /\ li' >= li - 2)
             /\ ~SwapIteration => (li' = li + 1)
        /\ SwapIteration =>
             /\ TwoQubitBeforeRZ(lgates') = TwoQubitBeforeRZ(lgates) - 1
             /\ lgates[li + 1].op \in {"CX", "CZ"} /\ lgates[li + 2].op = "RZ"
             /\ lgates'[li + 1].op = "RZ" /\ lgates'[li + 2].op \in {"CX", "CZ"}]_vars
  /\ (lpc = "scan" ~> lpc = "done")

\* an RZ on the common control has passed four two-qubit gates
C36_Witness ==
  /\ lpc = "done"
  /\ Len(gates) = 5
  /\ gates[5].op = "RZ"
  /\ lgates[1] = gates[5]
  /\ \A k \in 2..5 : lgates[k] = gates[k - 1]

\* C37: the swap phase of _commute_rotations exchanges only an adjacent
\* pair g1, g2 with g1 a CX or CZ, g2 an RZ, and g2's target g1's control,
\* or g1's target when g1 is a CZ; so the list stays a rearrangement of the
\* input, and two gates stand in another order than in the input only if
\* they are such a pair: an RZ on the target of a CX never crosses it.
CommutingPair(g1, g2) ==
  \/ g1.op = "CX" /\ g2.op = "RZ" /\ g2.target = g1.control
  \/ g1.op = "CZ" /\ g2.op = "RZ" /\ g2.target \in {g1.control, g1.target}

C37_Rearranged ==
  lpc \in {"scan", "done"} =>
    /\ Len(lgates) = Len(gates)
    /\ {lperm[k] : k \in 1..Len(lperm)} = 1..Len(gates)
    /\ \A k \in 1..Len(lgates) : lgates[k] = gates[lperm[k]]
    /\ \A a, b \in 1..Len(lgates) :
         (a < b /\ lperm[a] > lperm[b]) => CommutingPair(lgates[b], lgates[a])
    /\ lpc = "done" => lgates = CommuteLoop(gates, 0)

C37_SwapsOnlyCommutingPairs ==
  [][/\ C37_Rearranged
     /\ C37_Rearranged'
     /\ SwapIteration =>
          /\ CommutingPair(lgates[li + 1], lgates[li + 2])
          /\ lgates' = [lgates EXCEPT ![li + 1] = lgates[li + 2], ![li + 2] = lgates[li + 1]]]_vars

\* an RZ on the target of a CX stays behind it, one on its control has passed
C37_Witness ==
  /\ lpc = "done"
  /\ gates = <<MkGate("CX", 1, 0, None), MkGate("RZ", 0, None, 1), MkGate("RZ", 1, None, 1)>>
  /\ lgates = <<MkGate("RZ", 0, None, 1), MkGate("CX", 1, 0, None), MkGate("RZ", 1, None, 1)>>


\* C38: two adjacent identical parameter-less self-inverse two-qubit gates
\* (CX, CZ, CY, CH, SWAP) on the same target and control do not survive
\* _cancel_inverses: its output holds no such adjacent pair.
SelfInverseTwoQubit == {"CX", "CZ", "CY", "CH", "SWAP"}

TwoQubitPair(a, b) ==
  /\ a.op \in SelfInverseTwoQubit
  /\ a = b
  /\ a.control # None
  /\ a.params = None

C38_TwoQubitPairsCancel ==
  opc = "cancel" => \A i \in 1..(Len(out) - 1) : ~TwoQubitPair(out[i], out[i + 1])


\* C39: a terminal state is absorbing: from the step that stores a job's
\* outcome on, the outcome stored for it does not change, its result slot
\* is not written again (also after wait has emptied it), it is not
\* executed again, and its record is neither in the queue nor in the
\* worker's hands.
HasOutcome(j) == stored[j] # NoResult

C39_TerminalState ==
  \A j \in JobIds : HasOutcome(j) =>
    /\ j \notin QueuedIds
    /\ item.job_id # j
    /\ results[j] \in {stored[j], NoResult}

C39_TerminalAbsorbing ==
  [][/\ C39_TerminalState
     /\ C39_TerminalState'
     /\ \A j \in JobIds : HasOutcome(j) =>
          /\ stored'[j] = stored[j]
          /\ runs'[j] = runs[j]
          /\ results'[j] \in {results[j], NoResult}
     /\ \A j \in JobIds : (~HasOutcome(j) /\ HasOutcome(j)') =>
          /\ item.job_id = j
          /\ pc \in {"store", "store_err"}
          /\ results'[j] = stored'[j]]_vars

\* a job failed for good after a retry and wait has taken its outcome, while
\* the worker executes the next job
C39_Witness ==
  \E j \in JobIds :
    /\ HasOutcome(j)
    /\ stored[j].kind = "err"
    /\ runs[j] = 2
    /\ results[j] = NoResult
    /\ pc = "run"
    /\ item.job_id # j


\* C40: optimize never enlarges the circuit: whenever optimize returns for a
\* structurally valid IR, the returned gate list is no longer than the input
\* gate list and the returned qubit count is no greater than the input
\* qubit count (a call that raises returns no circuit).
C40_NeverEnlarges ==
  (opc = "optimize" /\ oerr = "none") =>
    /\ Len(out) <= Len(gates)
    /\ oqubits <= qubits

\* optimize returned a circuit with fewer gates on fewer wires
C40_Witness ==
  /\ opc = "optimize"
  /\ oerr = "none"
  /\ Len(out) >= 1
  /\ Len(out) < Len(gates)
  /\ oqubits < qubits

====
